---- MODULE Spec2Model ----
(***************************************************************************)
(* Model of github.com/nickbryan/slogutil: the persistent AttrGroupTree,   *)
(* the AttrGroupHistory resolution / key de-duplication pass               *)
(* (internal/attrs.go) and the in-memory handler that consumes them        *)
(* (slogmem/handler.go).                                                   *)
(*                                                                         *)
(* Go strings are modelled as sequences of one-character strings, so that  *)
(* groupPath (ReplaceAll, concatenation, TrimLeft) and the "%s#%02d"       *)
(* formatting are computed character by character.  Go slices are modelled *)
(* as (backing array, len, cap) triples over a heap of arrays, so that     *)
(* append writes in place whenever the capacity allows it.                 *)
(***************************************************************************)
EXTENDS Integers, Sequences, FiniteSets, TLC

VARIABLES
    heap,        \* backing arrays of the []slog.Attr slices, in allocation order
    trees,       \* the AttrGroupTree values obtained so far, trees[1] = NewAttrGroupTree()
    derivation,  \* derivation[k]: the call that returned trees[k]
    in,          \* input of the call under study: [path, attrs] of a resolveAttrs
                 \* call, [query, order, exact] of a Contains or ContainsExact call
    out,         \* its result: <<>> before the call, then <<result>>
    handler,     \* persistentAttrs of the slogmem.Handler the Handle calls share
    calls,       \* the concurrent Handle calls on that handler
    mu,          \* LoggedRecords.mu: 0 when free, else the call holding it
    records,     \* LoggedRecords.records
    readers,     \* the goroutines reading the LoggedRecords the calls append to
    agh,         \* the *AttrGroupHistory under study: <<>> before it exists, then <<history>>
    pushes,      \* the PushFront calls made on it, in order
    results,     \* what its DeduplicatedAttrs calls returned, in order
    ctxs,        \* the context.Context values obtained so far, ctxs[1] = context.Background()
    ctxDerivation, \* ctxDerivation[k]: the call that returned ctxs[k]
    passed,      \* the Handle calls of the slogctx.Handler: what the wrapped handler
                 \* was passed and what the call returned
    attrExtractors,     \* attrExtractors of the slogctx.Handler
    rootAttrExtractors, \* rootAttrExtractors of the slogctx.Handler
    handlers,    \* the slogmem.Handler values obtained so far, by NewHandler or derived
    sinks,       \* the LoggedRecords objects in memory: sinks[p] is the records field
                 \* of the object a handler's loggedRecords = p points to
    appended     \* the Handle calls on these handlers that completed their append, in
                 \* the order they completed it

\* the state of the readers, of the history, of the contexts and of the
\* handlers that share their records
readVars == <<readers>>

histVars == <<agh, pushes, results>>

ctxVars == <<ctxs, ctxDerivation, passed, attrExtractors, rootAttrExtractors>>

shareVars == <<handlers, sinks, appended>>

vars == <<heap, trees, derivation, in, out, handler, calls, mu, records, readVars, histVars, ctxVars,
          shareVars>>

(***************************************************************************)
(* Bounds                                                                  *)
(***************************************************************************)
\* trees obtained in the branching specification Spec
MaxTrees == 5

\* trees obtained in the chain specification SpecChain
MaxChain == 4

\* trees in SpecEnter, NewAttrGroupTree() included
MaxEnterTrees == 5

\* length of the attribute lists given to resolveAttrs in SpecResolve
MaxLen == 3

\* concurrent Handle calls in SpecHandle
NCalls == 2

\* goroutines reading the LoggedRecords in SpecHandle
NReaders == 1

(***************************************************************************)
(* Strings                                                                 *)
(***************************************************************************)
Digits == <<"0", "1", "2", "3", "4", "5", "6", "7", "8", "9">>

RECURSIVE Itoa(_)
Itoa(n) == IF n < 10 THEN <<Digits[n + 1]>> ELSE Itoa(n \div 10) \o <<Digits[(n % 10) + 1]>>

\* fmt's %02d verb for a non-negative int: decimal, zero-padded to width two
Fmt02d(n) == IF n < 10 THEN <<"0">> \o Itoa(n) ELSE Itoa(n)

HasPrefix(s, prefix) ==
    /\ Len(s) >= Len(prefix)
    /\ SubSeq(s, 1, Len(prefix)) = prefix

\* p is a prefix of list
IsPrefix(p, list) == Len(p) <= Len(list) /\ SubSeq(list, 1, Len(p)) = p

\* strings.Contains
Contains(s, substr) ==
    \E i \in 1..(Len(s) + 1) : HasPrefix(SubSeq(s, i, Len(s)), substr)

\* strings.ReplaceAll for a non-empty old: leftmost, non-overlapping
RECURSIVE ReplaceAll(_, _, _)
ReplaceAll(s, old, new) ==
    IF Len(s) = 0 THEN <<>>
    ELSE IF HasPrefix(s, old) THEN new \o ReplaceAll(SubSeq(s, Len(old) + 1, Len(s)), old, new)
    ELSE <<Head(s)>> \o ReplaceAll(Tail(s), old, new)

\* strings.TrimLeft: drops every leading character contained in the cutset
RECURSIVE TrimLeft(_, _)
TrimLeft(s, cutset) ==
    IF Len(s) > 0 /\ (\E i \in 1..Len(cutset) : cutset[i] = Head(s))
    THEN TrimLeft(Tail(s), cutset)
    ELSE s

(***************************************************************************)
(* slog.Value and slog.Attr                                                *)
(***************************************************************************)
\* A slog.Value: its kind, what it holds, the attributes of a group (or the
\* attributes LogValue returns), and in err the text Error() returns when
\* what Any() returns implements error, <<>> when it does not.
\* slog.Value{}: KindAny holding nil
ZeroValue == [kind |-> "Any", val |-> "nil", grp |-> <<>>, err |-> <<>>]

\* slog.Attr{}
ZeroAttr == [Key |-> <<>>, Value |-> ZeroValue]

StringValue(v) == [kind |-> "String", val |-> v, grp |-> <<>>, err |-> <<>>]

IntValue(v) == [kind |-> "Int64", val |-> v, grp |-> <<>>, err |-> <<>>]

\* slog.AnyValue(errors.New(text))
ErrorValue(text) == [kind |-> "Any", val |-> text, grp |-> <<>>, err |-> <<text>>]

isEmptyGroup(v) == v.kind = "Group" /\ Len(v.grp) = 0

\* slog.GroupValue removes the attributes whose value is an empty group
GroupValue(as) ==
    [kind |-> "Group", val |-> "", grp |-> SelectSeq(as, LAMBDA a : ~isEmptyGroup(a.Value)),
     err |-> <<>>]

\* a slog.LogValuer whose LogValue method returns slog.GroupValue(as...)
LogValuerValue(as) == [kind |-> "LogValuer", val |-> "", grp |-> as, err |-> <<>>]

\* a slog.LogValuer that implements error as well: Error() returns text and
\* LogValue() returns slog.GroupValue(as...)
LogValuerError(text, as) == [kind |-> "LogValuer", val |-> "", grp |-> as, err |-> <<text>>]

\* slog.Value.Resolve
Resolve(v) == IF v.kind = "LogValuer" THEN GroupValue(v.grp) ELSE v

Attr(key, value) == [Key |-> key, Value |-> value]

(***************************************************************************)
(* internal/attrs.go: helpers                                              *)
(***************************************************************************)
attrIsEmpty(attr) == attr = ZeroAttr

\* a variant that never recognises a group as empty
attrGroupIsEmptyNever(value) == FALSE

attrGroupIsEmpty(value) == Len(value.grp) = 0

delimiter == <<"[", ".", "]">>

groupPath(path, key) ==
    LET k == IF Contains(key, delimiter) THEN ReplaceAll(key, delimiter, <<"_", "_", "_">>) ELSE key
    IN  TrimLeft(path \o delimiter \o k, delimiter)

\* duplicateAttrKeys[key], the zero value for a missing key
Count(keys, key) == IF key \in DOMAIN keys THEN keys[key] ELSE 0

trackKey(keys, key) ==
    IF key \in DOMAIN keys
    THEN [keys EXCEPT ![key] = @ + 1]
    ELSE [k \in (DOMAIN keys) \cup {key} |-> IF k = key THEN 0 ELSE keys[k]]

deduplicatedKey(keys, key, pathWithKey) ==
    IF Count(keys, pathWithKey) = 0
    THEN key
    ELSE key \o <<"#">> \o Fmt02d(Count(keys, pathWithKey))

NoKeys == [k \in {} |-> 0]

(***************************************************************************)
(* AttrGroupHistory.resolveAttrs and resolve.  Both thread the             *)
(* duplicateAttrKeys map through the pass and return it with the result:   *)
(* [attrs |-> resolved attributes, keys |-> the map afterwards].           *)
(***************************************************************************)
RECURSIVE resolveAttrs(_, _, _)
RECURSIVE resolveAttrsFrom(_, _, _, _, _)

\* the loop body of resolveAttrs for attrs[i], then the rest of the loop
resolveAttrsFrom(keys, path, attrs, i, resolvedAttrs) ==
    IF i > Len(attrs) THEN [attrs |-> resolvedAttrs, keys |-> keys]
    ELSE
    LET attr == attrs[i] IN
    IF attrIsEmpty(attr) THEN resolveAttrsFrom(keys, path, attrs, i + 1, resolvedAttrs)
    ELSE
    LET pathWithKey == groupPath(path, attr.Key)
        tracked == trackKey(keys, pathWithKey)
        value == Resolve(attr.Value)
    IN  IF value.kind # "Group"
        THEN resolveAttrsFrom(tracked, path, attrs, i + 1,
                 Append(resolvedAttrs, Attr(deduplicatedKey(tracked, attr.Key, pathWithKey), value)))
        ELSE IF attr.Key = <<>>
        THEN LET inlined == resolveAttrs(tracked, pathWithKey, value.grp)
             IN  resolveAttrsFrom(inlined.keys, path, attrs, i + 1, resolvedAttrs \o inlined.attrs)
        ELSE IF attrGroupIsEmpty(value)
        THEN resolveAttrsFrom(tracked, path, attrs, i + 1, resolvedAttrs)
        ELSE LET key == deduplicatedKey(tracked, attr.Key, pathWithKey)
                 groupedPath == deduplicatedKey(tracked, pathWithKey, pathWithKey)
                 grouped == resolveAttrs(tracked, groupedPath, value.grp)
             IN  resolveAttrsFrom(grouped.keys, path, attrs, i + 1,
                     Append(resolvedAttrs, Attr(key, GroupValue(grouped.attrs))))

resolveAttrs(keys, path, attrs) ==
    IF Len(attrs) = 0 THEN [attrs |-> attrs, keys |-> keys]
    ELSE resolveAttrsFrom(keys, path, attrs, 1, <<>>)

\* groups: the history's groups with their attribute lists read from memory
RECURSIVE resolve(_, _)
resolve(keys, groups) ==
    IF Len(groups) = 0 THEN [attrs |-> <<>>, keys |-> keys]
    ELSE
    LET own == resolveAttrs(keys, groups[1].path, groups[1].attrs)
        descendent == IF Len(groups) > 1
                      THEN resolve(own.keys, Tail(groups))
                      ELSE [attrs |-> <<>>, keys |-> own.keys]
        resolvedAttrs == own.attrs \o descendent.attrs
    IN  IF groups[1].name = <<>>
        THEN [attrs |-> resolvedAttrs, keys |-> descendent.keys]
        ELSE LET key == groups[1].name
                 pathWithKey == groupPath(groups[1].path, key)
                 tracked == trackKey(descendent.keys, pathWithKey)
             IN  [attrs |-> <<Attr(deduplicatedKey(tracked, key, pathWithKey), GroupValue(resolvedAttrs))>>,
                  keys |-> tracked]

(***************************************************************************)
(* Go slices.  A slice is [arr, len, cap]: arr indexes heap (0 for a slice *)
(* without backing array); heap[arr] has cap elements.  A tree's attribute *)
(* list is the first len elements of its backing array.                    *)
(***************************************************************************)
\* attrs: nil
NilSlice == [arr |-> 0, len |-> 0, cap |-> 0, isNil |-> TRUE]

\* make([]slog.Attr, 0)
EmptySlice == [arr |-> 0, len |-> 0, cap |-> 0, isNil |-> FALSE]

\* the elements a slice shows in memory h
Elems(h, s) == IF s.len = 0 THEN <<>> ELSE SubSeq(h[s.arr], 1, s.len)

\* runtime.class_to_size without its entry 0: the malloc size classes (bytes)
SizeClasses == <<8, 16, 24, 32, 48, 64, 80, 96, 112, 128, 144, 160, 176, 192, 208, 224, 240,
                 256, 288, 320, 352, 384, 416, 448, 480, 512, 576, 640, 704, 768, 896, 1024,
                 1152, 1280, 1408, 1536, 1792, 2048, 2304, 2688, 3072, 3200, 3456, 4096, 4864,
                 5376, 6144, 6528, 6784, 6912, 8192, 9472, 9728, 10240, 10880, 12288, 13568,
                 14336, 16384, 18432, 19072, 20480, 21760, 24576, 27264, 28672, 32768>>

\* the smallest size class that holds size bytes, size <= 32768
sizeClass(size) ==
    SizeClasses[CHOOSE i \in 1..Len(SizeClasses) :
                   /\ SizeClasses[i] >= size
                   /\ \A j \in 1..(i - 1) : SizeClasses[j] < size]

\* runtime.roundupsize(size, noscan = false) of go 1.22 and later (go.mod:
\* go 1.23.3): the bytes malloc hands out for a request of size bytes of a
\* type with pointers.  Above 512 bytes the object carries a malloc header
\* of 8 bytes inside its size class; above 32768 - 8 bytes the request is
\* rounded up to whole pages of 8192 bytes
roundupsize(size) ==
    IF size <= 32768 - 8
    THEN LET reqSize == IF size > 512 THEN size + 8 ELSE size
         IN  sizeClass(reqSize) - (reqSize - size)
    ELSE ((size + 8191) \div 8192) * 8192

\* the loop of runtime.nextslicecap for slices of 256 elements and more
RECURSIVE nextslicecapLoop(_, _)
nextslicecapLoop(newcap, newLen) ==
    LET grown == newcap + ((newcap + 3 * 256) \div 4)
    IN  IF grown >= newLen THEN grown ELSE nextslicecapLoop(grown, newLen)

\* runtime.nextslicecap
nextslicecap(newLen, oldCap) ==
    LET doublecap == oldCap + oldCap
    IN  IF newLen > doublecap THEN newLen
        ELSE IF oldCap < 256 THEN doublecap
        ELSE nextslicecapLoop(oldCap, newLen)

\* runtime.growslice for []slog.Attr (40 bytes an element): the capacity of
\* the new array
growCap(newLen, oldCap) == roundupsize(nextslicecap(newLen, oldCap) * 40) \div 40

\* the slice header append(s, elems...) returns; h is the memory before
appendSlice(h, s, elems) ==
    IF s.len + Len(elems) <= s.cap
    THEN [arr |-> s.arr, len |-> s.len + Len(elems), cap |-> s.cap, isNil |-> FALSE]
    ELSE [arr |-> Len(h) + 1, len |-> s.len + Len(elems),
          cap |-> growCap(s.len + Len(elems), s.cap), isNil |-> FALSE]

\* a variant of appendWrite that, writing in place, starts one element early
appendWriteOverLast(h, s, elems, n) ==
    LET r == appendSlice(h, s, elems)
        old == Elems(h, s)
    IN  IF r.arr = s.arr
        THEN [h EXCEPT ![s.arr] = [i \in 1..s.cap |->
                 IF i >= s.len /\ i < s.len + n THEN elems[i - s.len + 1] ELSE @[i]]]
        ELSE Append(h, [i \in 1..r.cap |->
                 IF i <= s.len THEN old[i]
                 ELSE IF i <= s.len + n THEN elems[i - s.len]
                 ELSE ZeroAttr])

\* the memory after append(s, elems...) has written the first n of elems:
\* in place when the capacity suffices, else into a fresh zeroed array
\* that first receives the old elements
appendWrite(h, s, elems, n) ==
    LET r == appendSlice(h, s, elems)
        old == Elems(h, s)
    IN  IF r.arr = s.arr
        THEN [h EXCEPT ![s.arr] = [i \in 1..s.cap |->
                 IF i > s.len /\ i <= s.len + n THEN elems[i - s.len] ELSE @[i]]]
        ELSE Append(h, [i \in 1..r.cap |->
                 IF i <= s.len THEN old[i]
                 ELSE IF i <= s.len + n THEN elems[i - s.len]
                 ELSE ZeroAttr])

(***************************************************************************)
(* AttrGroupTree.  ancestor is <<>> for nil and <<t>> for a pointer to the *)
(* copy t of the receiver taken by WithGroup.                              *)
(***************************************************************************)
NewAttrGroupTree ==
    [name |-> <<>>, path |-> <<>>, attrs |-> EmptySlice, ancestor |-> <<>>]

\* a variant of WithAttrs that returns a tree without ancestor
WithAttrsAtRoot(h, agt, attrs) ==
    IF Len(attrs) = 0 THEN agt
    ELSE [name |-> agt.name, path |-> agt.path,
          attrs |-> appendSlice(h, agt.attrs, attrs), ancestor |-> <<>>]

\* the returned tree; the memory after the call is WithAttrsHeap
WithAttrs(h, agt, attrs) ==
    IF Len(attrs) = 0 THEN agt
    ELSE [name |-> agt.name, path |-> agt.path,
          attrs |-> appendSlice(h, agt.attrs, attrs), ancestor |-> agt.ancestor]

WithAttrsHeap(h, agt, attrs) ==
    IF Len(attrs) = 0 THEN h
    ELSE appendWrite(h, agt.attrs, attrs, Len(attrs))

\* a variant of WithGroup without the check for an empty name
WithGroupAlways(agt, name) ==
    [name |-> name, path |-> groupPath(agt.path, name),
     attrs |-> NilSlice, ancestor |-> <<agt>>]

WithGroup(agt, name) ==
    IF name = <<>> THEN agt
    ELSE [name |-> name, path |-> groupPath(agt.path, name),
          attrs |-> NilSlice, ancestor |-> <<agt>>]

\* a variant of History that fills the slots after the root group from the
\* front: the root group, then the entered groups newest first
HistoryEnteredNewestFirst(agt) ==
    LET group(t) == [name |-> t.name, path |-> t.path, attrs |-> t.attrs]
        RECURSIVE rootOf(_)
        rootOf(t) == IF t.ancestor = <<>> THEN t ELSE rootOf(t.ancestor[1])
        RECURSIVE entered(_)
        entered(t) == IF t.ancestor = <<>> THEN <<>>
                      ELSE <<group(t)>> \o entered(t.ancestor[1])
    IN  <<group(rootOf(agt))>> \o entered(agt)

\* History: the AttrGroup of every tree on the ancestor chain, oldest first
RECURSIVE History(_)
History(agt) ==
    (IF agt.ancestor = <<>> THEN <<>> ELSE History(agt.ancestor[1]))
        \o <<[name |-> agt.name, path |-> agt.path, attrs |-> agt.attrs]>>

\* the groups of a history with their attribute lists read from memory h
Load(h, groups) ==
    [i \in 1..Len(groups) |->
        [name |-> groups[i].name, path |-> groups[i].path, attrs |-> Elems(h, groups[i].attrs)]]

\* History().DeduplicatedAttrs() of tree agt in memory h
DeduplicatedAttrs(h, agt) == resolve(NoKeys, Load(h, History(agt))).attrs

(***************************************************************************)
(* Inputs                                                                  *)
(***************************************************************************)
ka == <<"a">>

kb == <<"b">>

kg == <<"g">>

\* attribute lists given to WithAttrs in Spec
BranchLists ==
    { <<>>,
      <<Attr(ka, StringValue("1"))>>,
      <<Attr(kb, StringValue("2"))>>,
      <<Attr(ka, StringValue("3")), Attr(kb, IntValue("4"))>> }

\* group names given to WithGroup in Spec
BranchNames == { <<>>, kg }

\* attribute lists and group names given in SpecEnter
EnterLists ==
    { <<>>,
      <<Attr(ka, StringValue("1"))>>,
      <<Attr(ka, StringValue("3")), Attr(kb, IntValue("4"))>> }

EnterNames == { <<>>, kg, ka }

\* attribute lists given to WithAttrs in SpecChain
ChainLists ==
    { <<Attr(ka, StringValue("1"))>>,
      <<Attr(kb, StringValue("2"))>>,
      <<Attr(ka, StringValue("3")), Attr(ka, IntValue("4"))>>,
      <<Attr(ka, GroupValue(<<Attr(ka, StringValue("5"))>>))>>,
      <<Attr(kg, GroupValue(<<Attr(ka, StringValue("6"))>>)),
        Attr(kg, GroupValue(<<Attr(ka, StringValue("7")), Attr(ka, StringValue("8"))>>))>>,
      <<Attr(kg, GroupValue(<<Attr(kg, GroupValue(<<Attr(ka, StringValue("9"))>>))>>))>>,
      <<Attr(ka, StringValue("10")), Attr(<<>>, GroupValue(<<Attr(ka, IntValue("11"))>>))>>,
      <<Attr(ka, StringValue("12")), Attr(ka, StringValue("13")),
        Attr(<<"a", "#", "0", "1">>, StringValue("14"))>> }

\* group names given to WithGroup in SpecChain
ChainNames == { ka, kg }

(***************************************************************************)
(* The parts of the state a specification does not use                     *)
(***************************************************************************)
NoReaders == readers = <<>>

NoHistory == agh = <<>> /\ pushes = <<>> /\ results = <<>>

NoContexts ==
    /\ ctxs = <<>> /\ ctxDerivation = <<>> /\ passed = <<>>
    /\ attrExtractors = <<>> /\ rootAttrExtractors = <<>>

NoSharing == handlers = <<>> /\ sinks = <<>> /\ appended = <<>>

(***************************************************************************)
(* Tree operations as steps: a caller holding trees[i] derives a new tree  *)
(***************************************************************************)
Derived(op, i, attrs, name) == [op |-> op, recv |-> i, attrs |-> attrs, name |-> name]

TreeWithAttrs(i, attrs) ==
    /\ trees' = Append(trees, WithAttrs(heap, trees[i], attrs))
    /\ heap' = WithAttrsHeap(heap, trees[i], attrs)
    /\ derivation' = Append(derivation, Derived("WithAttrs", i, attrs, <<>>))
    /\ UNCHANGED <<shareVars, readVars, histVars, ctxVars, in, out, handler, calls, mu, records>>

TreeWithGroup(i, name) ==
    /\ trees' = Append(trees, WithGroup(trees[i], name))
    /\ derivation' = Append(derivation, Derived("WithGroup", i, <<>>, name))
    /\ UNCHANGED <<shareVars, readVars, histVars, ctxVars, heap, in, out, handler, calls, mu, records>>

InitTrees ==
    /\ heap = <<>>
    /\ trees = <<NewAttrGroupTree>>
    /\ derivation = <<Derived("New", 0, <<>>, <<>>)>>
    /\ in = [path |-> <<>>, attrs |-> <<>>]
    /\ out = <<>>
    /\ handler = NewAttrGroupTree
    /\ calls = <<>>
    /\ mu = 0
    /\ records = <<>>
    /\ NoReaders /\ NoHistory /\ NoContexts /\ NoSharing

\* any tree obtained so far is the receiver of the next call
Next ==
    /\ Len(trees) < MaxTrees
    /\ \E i \in 1..Len(trees) :
          \/ \E attrs \in BranchLists : TreeWithAttrs(i, attrs)
          \/ \E name \in BranchNames : TreeWithGroup(i, name)

Spec == InitTrees /\ [][Next]_vars

\* as Next, the groups entered under two names
NextEnter ==
    /\ Len(trees) < MaxEnterTrees
    /\ \E i \in 1..Len(trees) :
          \/ \E attrs \in EnterLists : TreeWithAttrs(i, attrs)
          \/ \E name \in EnterNames : TreeWithGroup(i, name)

SpecEnter == InitTrees /\ [][NextEnter]_vars

\* every call is made on the tree the previous call returned
NextChain ==
    /\ Len(trees) < MaxChain
    /\ \/ \E attrs \in ChainLists : TreeWithAttrs(Len(trees), attrs)
       \/ \E name \in ChainNames : TreeWithGroup(Len(trees), name)

SpecChain == InitTrees /\ [][NextChain]_vars

(***************************************************************************)
(* resolveAttrs on its own: one call on a fresh duplicateAttrKeys map      *)
(***************************************************************************)
\* the attributes the lists of SpecResolve are made of
ResolveAttrSet ==
    { ZeroAttr,
      Attr(ka, StringValue("1")),
      Attr(ka, ZeroValue),
      Attr(kg, GroupValue(<<>>)),
      Attr(kg, GroupValue(<<Attr(ka, StringValue("2"))>>)),
      Attr(<<>>, GroupValue(<<Attr(ka, StringValue("3"))>>)),
      Attr(kg, [kind |-> "Group", val |-> "",
                grp |-> <<ZeroAttr, Attr(kg, GroupValue(<<>>)), Attr(kb, IntValue("4"))>>,
                err |-> <<>>]),
      Attr(kg, LogValuerValue(<<>>)) }

\* the sequences over set of length at most n
RECURSIVE SeqsUpTo(_, _)
SeqsUpTo(set, n) ==
    IF n = 0 THEN {<<>>}
    ELSE SeqsUpTo(set, n - 1) \cup
         {Append(list, x) : list \in {l \in SeqsUpTo(set, n - 1) : Len(l) = n - 1}, x \in set}

ResolvePaths == { <<>>, kg }

InitResolve ==
    /\ heap = <<>>
    /\ trees = <<NewAttrGroupTree>>
    /\ derivation = <<Derived("New", 0, <<>>, <<>>)>>
    /\ in \in [path : ResolvePaths, attrs : SeqsUpTo(ResolveAttrSet, MaxLen)]
    /\ out = <<>>
    /\ handler = NewAttrGroupTree
    /\ calls = <<>>
    /\ mu = 0
    /\ records = <<>>
    /\ NoReaders /\ NoHistory /\ NoContexts /\ NoSharing

ResolveAttrsCall ==
    /\ out = <<>>
    /\ out' = <<resolveAttrs(NoKeys, in.path, in.attrs)>>
    /\ UNCHANGED <<shareVars, readVars, histVars, ctxVars, heap, trees, derivation, in, handler, calls, mu, records>>

NextResolve == ResolveAttrsCall

SpecResolve == InitResolve /\ [][NextResolve]_vars

(***************************************************************************)
(* slogmem.Handler: NCalls goroutines call Handle on one handler, each     *)
(* with a record of its own.  A call runs                                  *)
(*   h.persistentAttrs.WithAttrs(recordAttrs)   begin, copy                *)
(*       .History().DeduplicatedAttrs()         resolve                    *)
(*   h.loggedRecords.append(...)                lock, load, store, unlock  *)
(* An append that fits the capacity of persistentAttrs writes the shared   *)
(* backing array one element a step, and the resolution reads it one       *)
(* element a step; the calls are not synchronised before the lock, so      *)
(* these writes interleave with the writes and the reads of the other      *)
(* calls.                                                                  *)
(***************************************************************************)
\* the calls that gave the handler its persistent attributes
HandlerScripts ==
    { <<>>,
      <<Derived("WithAttrs", 0, <<Attr(ka, StringValue("1"))>>, <<>>)>>,
      <<Derived("WithAttrs", 0, <<Attr(ka, StringValue("3")), Attr(kb, IntValue("4"))>>, <<>>),
        Derived("WithAttrs", 0, <<Attr(ka, StringValue("1"))>>, <<>>)>>,
      <<Derived("WithGroup", 0, <<>>, kg),
        Derived("WithAttrs", 0, <<Attr(ka, StringValue("3")), Attr(kb, IntValue("4"))>>, <<>>),
        Derived("WithAttrs", 0, <<Attr(ka, StringValue("1"))>>, <<>>)>>,
      <<Derived("WithAttrs", 0, <<Attr(ka, StringValue("3")), Attr(kb, IntValue("4"))>>, <<>>),
        Derived("WithAttrs", 0, <<Attr(ka, StringValue("1"))>>, <<>>),
        Derived("WithAttrs", 0, <<Attr(kb, StringValue("2"))>>, <<>>),
        Derived("WithAttrs", 0, <<Attr(ka, StringValue("1"))>>, <<>>)>> }

\* the tree and the memory after the calls of script, made one on the
\* result of the other from [tree, heap] on
RECURSIVE Build(_, _)
Build(state, script) ==
    IF Len(script) = 0 THEN state
    ELSE LET call == Head(script)
         IN  Build(IF call.op = "WithAttrs"
                   THEN [tree |-> WithAttrs(state.heap, state.tree, call.attrs),
                         heap |-> WithAttrsHeap(state.heap, state.tree, call.attrs)]
                   ELSE [tree |-> WithGroup(state.tree, call.name), heap |-> state.heap],
                   Tail(script))

kr == <<"r">>

ks == <<"s">>

\* the attributes of the record of call c: the first n of two that name c
RecordAttrs(c, n) ==
    SubSeq(<<Attr(kr, IntValue(Digits[c + 1])), Attr(ks, IntValue(Digits[c + 1]))>>, 1, n)

InitHandle ==
    /\ \E script \in HandlerScripts :
          LET built == Build([tree |-> NewAttrGroupTree, heap |-> <<>>], script)
          IN  /\ handler = built.tree
              /\ heap = built.heap
    /\ trees = <<NewAttrGroupTree>>
    /\ derivation = <<Derived("New", 0, <<>>, <<>>)>>
    /\ in = [path |-> <<>>, attrs |-> <<>>]
    /\ out = <<>>
    /\ \E n \in [1..NCalls -> 0..2] :
          calls = [c \in 1..NCalls |->
                     [pc |-> "begin", recordAttrs |-> RecordAttrs(c, n[c]),
                      tree |-> NewAttrGroupTree, written |-> 0, elems |-> <<>>,
                      attrs |-> <<>>, seen |-> <<>>]]
    /\ mu = 0
    /\ records = <<>>
    /\ readers = [r \in 1..NReaders |-> [pc |-> "idle"]]
    /\ NoHistory /\ NoContexts /\ NoSharing

\* WithAttrs(recordAttrs): the slice header is computed; a new backing array
\* is allocated and filled at once, an append in place is left to HandleCopy
HandleBegin(c) ==
    /\ calls[c].pc = "begin"
    /\ LET attrs == calls[c].recordAttrs
           tree == WithAttrs(heap, handler, attrs)
           inPlace == Len(attrs) > 0 /\ tree.attrs.arr = handler.attrs.arr
       IN  /\ calls' = [calls EXCEPT ![c].tree = tree,
                                     ![c].pc = IF inPlace THEN "copy" ELSE "resolve"]
           /\ heap' = IF inPlace THEN heap ELSE WithAttrsHeap(heap, handler, attrs)
    /\ UNCHANGED <<shareVars, readVars, histVars, ctxVars, trees, derivation, in, out, handler, mu, records>>

\* append in place: the next record attribute is written behind the
\* persistent attributes
HandleCopy(c) ==
    /\ calls[c].pc = "copy"
    /\ LET n == calls[c].written + 1
       IN  /\ heap' = [heap EXCEPT ![handler.attrs.arr][handler.attrs.len + n] =
                                       calls[c].recordAttrs[n]]
           /\ calls' = [calls EXCEPT ![c].written = n,
                                     ![c].pc = IF n = Len(calls[c].recordAttrs)
                                               THEN "resolve" ELSE "copy"]
    /\ UNCHANGED <<shareVars, readVars, histVars, ctxVars, trees, derivation, in, out, handler, mu, records>>

\* History().DeduplicatedAttrs(): resolveAttrs ranges over the attribute
\* slice of the call's tree and reads it from memory one element at a time,
\* with no lock held.  A step reads up to and with the next element that
\* another call may write: those are the elements behind the persistent
\* attributes when the record's attributes were appended in place, and none
\* when the backing array is the call's own.  The attributes of the groups
\* entered before are written by no call.  The step that reads the last
\* element ends the resolution
HandleResolve(c) ==
    /\ calls[c].pc = "resolve"
    /\ LET own == calls[c].tree.attrs
           k == Len(calls[c].elems)
           to == IF own.len <= handler.attrs.len \/ own.arr # handler.attrs.arr THEN own.len
                 ELSE IF k < handler.attrs.len THEN handler.attrs.len + 1
                 ELSE k + 1
           elems == calls[c].elems \o [i \in 1..(to - k) |-> heap[own.arr][k + i]]
           groups == Load(heap, History(calls[c].tree))
       IN  calls' = IF to < own.len
                    THEN [calls EXCEPT ![c].elems = elems]
                    ELSE [calls EXCEPT ![c].elems = elems,
                                       ![c].attrs = resolve(NoKeys, [groups EXCEPT ![Len(groups)].attrs =
                                                                               elems]).attrs,
                                       ![c].pc = "lock"]
    /\ UNCHANGED <<shareVars, readVars, histVars, ctxVars, heap, trees, derivation, in, out, handler, mu, records>>

\* a variant of HandleLock that does not wait for the mutex
HandleLockNoWait(c) ==
    /\ calls[c].pc = "lock"
    /\ mu' = c
    /\ calls' = [calls EXCEPT ![c].pc = "load"]
    /\ UNCHANGED <<shareVars, readVars, histVars, ctxVars, heap, trees, derivation, in, out, handler, records>>

\* LoggedRecords.append: lr.mu.Lock()
HandleLock(c) ==
    /\ calls[c].pc = "lock"
    /\ mu = 0
    /\ mu' = c
    /\ calls' = [calls EXCEPT ![c].pc = "load"]
    /\ UNCHANGED <<shareVars, readVars, histVars, ctxVars, heap, trees, derivation, in, out, handler, records>>

\* LoggedRecords.append: append(lr.records, record) reads lr.records
HandleLoad(c) ==
    /\ calls[c].pc = "load"
    /\ calls' = [calls EXCEPT ![c].seen = records, ![c].pc = "store"]
    /\ UNCHANGED <<shareVars, readVars, histVars, ctxVars, heap, trees, derivation, in, out, handler, mu, records>>

\* LoggedRecords.append: lr.records = the slice read with record behind it
HandleStore(c) ==
    /\ calls[c].pc = "store"
    /\ records' = Append(calls[c].seen,
                         [Level |-> "INFO", Message |-> Digits[c + 1], Attrs |-> calls[c].attrs])
    /\ calls' = [calls EXCEPT ![c].pc = "unlock"]
    /\ UNCHANGED <<shareVars, readVars, histVars, ctxVars, heap, trees, derivation, in, out, handler, mu>>

\* LoggedRecords.append: the deferred lr.mu.Unlock(); Handle returns nil
HandleUnlock(c) ==
    /\ calls[c].pc = "unlock"
    /\ mu' = 0
    /\ calls' = [calls EXCEPT ![c].pc = "done"]
    /\ UNCHANGED <<shareVars, readVars, histVars, ctxVars, heap, trees, derivation, in, out, handler, records>>

\* a goroutine calls one of the methods that read lr.records: Len, IsEmpty
\* (through Len), AsSliceOfNestedKeyValuePairs, Contains or ContainsExact
\* (through compare).  None of them takes lr.mu: the method goes on to read
\* lr.records
ReadBegin(r) ==
    /\ readers[r].pc = "idle"
    /\ readers' = [readers EXCEPT ![r].pc = "reading"]
    /\ UNCHANGED <<shareVars, histVars, ctxVars, heap, trees, derivation, in, out, handler, calls, mu, records>>

\* the method has read lr.records and returns
ReadEnd(r) ==
    /\ readers[r].pc = "reading"
    /\ readers' = [readers EXCEPT ![r].pc = "done"]
    /\ UNCHANGED <<shareVars, histVars, ctxVars, heap, trees, derivation, in, out, handler, calls, mu, records>>

NextHandle ==
    \/ \E c \in 1..NCalls :
          \/ HandleBegin(c)
          \/ HandleCopy(c)
          \/ HandleResolve(c)
          \/ HandleLock(c)
          \/ HandleLoad(c)
          \/ HandleStore(c)
          \/ HandleUnlock(c)
    \/ \E r \in 1..NReaders :
          \/ ReadBegin(r)
          \/ ReadEnd(r)

SpecHandle == InitHandle /\ [][NextHandle]_vars

(***************************************************************************)
(* slogmem.Handler values and the LoggedRecords they point to.  Two        *)
(* handlers come from NewHandler, each with a LoggedRecords of its own;    *)
(* the others are derived with WithAttrs and WithGroup.  Handle calls are  *)
(* made on any of them: a call resolves its attributes and then appends,   *)
(* the append being one step under the mutex of the LoggedRecords.         *)
(***************************************************************************)
\* handlers in SpecShare, the two from NewHandler included
MaxShareHandlers == 4

\* Handle calls in SpecShare
MaxShareCalls == 2

\* NewHandler, p the LoggedRecords that NewLoggedRecords allocated for it
MemNewHandler(p) == [persistentAttrs |-> NewAttrGroupTree, loggedRecords |-> p]

\* a variant of Handler.WithAttrs whose result points to the LoggedRecords
\* of the other of the two families
MemWithAttrsOtherRecords(h, hdl, attrs) ==
    [persistentAttrs |-> WithAttrs(h, hdl.persistentAttrs, attrs),
     loggedRecords |-> IF hdl.loggedRecords = 1 THEN 2 ELSE 1]

\* Handler.WithAttrs in memory h; the memory afterwards is WithAttrsHeap
MemWithAttrs(h, hdl, attrs) ==
    [persistentAttrs |-> WithAttrs(h, hdl.persistentAttrs, attrs),
     loggedRecords |-> hdl.loggedRecords]

\* Handler.WithGroup
MemWithGroup(hdl, name) ==
    [persistentAttrs |-> WithGroup(hdl.persistentAttrs, name),
     loggedRecords |-> hdl.loggedRecords]

\* Handler.Records() followed by a read of the records, in the store s
Records(s, hdl) == s[hdl.loggedRecords]

\* LoggedRecords.append on the object p of the store s
appendRecord(s, p, record) == [s EXCEPT ![p] = Append(@, record)]

InitShare ==
    /\ handlers = <<MemNewHandler(1), MemNewHandler(2)>>
    /\ sinks = << <<>>, <<>> >>
    /\ appended = <<>>
    /\ derivation = <<Derived("New", 0, <<>>, <<>>), Derived("New", 0, <<>>, <<>>)>>
    /\ heap = <<>>
    /\ trees = <<NewAttrGroupTree>>
    /\ in = [path |-> <<>>, attrs |-> <<>>]
    /\ out = <<>>
    /\ handler = NewAttrGroupTree
    /\ calls = <<>>
    /\ mu = 0
    /\ records = <<>>
    /\ NoReaders /\ NoHistory /\ NoContexts

\* handlers[i].WithAttrs(attrs)
ShareWithAttrs(i, attrs) ==
    /\ Len(handlers) < MaxShareHandlers
    /\ handlers' = Append(handlers, MemWithAttrs(heap, handlers[i], attrs))
    /\ heap' = WithAttrsHeap(heap, handlers[i].persistentAttrs, attrs)
    /\ derivation' = Append(derivation, Derived("WithAttrs", i, attrs, <<>>))
    /\ UNCHANGED <<readVars, histVars, ctxVars, trees, in, out, handler, calls, mu, records, sinks, appended>>

\* handlers[i].WithGroup(name)
ShareWithGroup(i, name) ==
    /\ Len(handlers) < MaxShareHandlers
    /\ handlers' = Append(handlers, MemWithGroup(handlers[i], name))
    /\ derivation' = Append(derivation, Derived("WithGroup", i, <<>>, name))
    /\ UNCHANGED <<readVars, histVars, ctxVars, heap, trees, in, out, handler, calls, mu, records, sinks, appended>>

\* handlers[i].Handle(ctx, record) up to the call of append, for a record
\* with one attribute: the record to store is built from the record given
\* and the resolved attributes
ShareHandleBegin(i) ==
    /\ Len(calls) < MaxShareCalls
    /\ LET c == Len(calls) + 1
           recordAttrs == RecordAttrs(c, 1)
           tree == WithAttrs(heap, handlers[i].persistentAttrs, recordAttrs)
           h1 == WithAttrsHeap(heap, handlers[i].persistentAttrs, recordAttrs)
       IN  /\ heap' = h1
           /\ calls' = Append(calls, [pc |-> "lock", handler |-> i,
                                      record |-> [Level |-> "INFO", Message |-> Digits[c + 1],
                                                  Attrs |-> DeduplicatedAttrs(h1, tree)]])
    /\ UNCHANGED <<readVars, histVars, ctxVars, trees, derivation, in, out, handler, mu, records, shareVars>>

\* the append of call c, from lr.mu.Lock() to the deferred Unlock
ShareHandleAppend(c) ==
    /\ calls[c].pc = "lock"
    /\ sinks' = appendRecord(sinks, handlers[calls[c].handler].loggedRecords, calls[c].record)
    /\ calls' = [calls EXCEPT ![c].pc = "done"]
    /\ appended' = Append(appended, c)
    /\ UNCHANGED <<readVars, histVars, ctxVars, heap, trees, derivation, in, out, handler, mu, records, handlers>>

NextShare ==
    \/ \E i \in 1..Len(handlers) :
          \/ ShareWithAttrs(i, <<Attr(ka, StringValue("1"))>>)
          \/ ShareWithGroup(i, kg)
          \/ ShareHandleBegin(i)
    \/ \E c \in 1..Len(calls) : ShareHandleAppend(c)

SpecShare == InitShare /\ [][NextShare]_vars

(***************************************************************************)
(* AttrGroupHistory as an object: the groups and the duplicateAttrKeys map *)
(* that every DeduplicatedAttrs call on the object goes on using.          *)
(***************************************************************************)
\* append(s, elems...): the slice header returned
appendAll(h, s, elems) == IF Len(elems) = 0 THEN s ELSE appendSlice(h, s, elems)

\* append(s, elems...): the memory afterwards
appendAllHeap(h, s, elems) == IF Len(elems) = 0 THEN h ELSE appendWrite(h, s, elems, Len(elems))

\* a slice of its own holding elems, with room for spare more: header and memory
MakeSlice(h, elems, spare) ==
    IF Len(elems) + spare = 0 THEN NilSlice
    ELSE [arr |-> Len(h) + 1, len |-> Len(elems), cap |-> Len(elems) + spare, isNil |-> FALSE]

MakeSliceHeap(h, elems, spare) ==
    IF Len(elems) + spare = 0 THEN h
    ELSE Append(h, [i \in 1..(Len(elems) + spare) |-> IF i <= Len(elems) THEN elems[i] ELSE ZeroAttr])

\* &AttrGroupHistory{groups: groups, duplicateAttrKeys: make(map[string]int)}
AttrGroupHistory(groups) == [groups |-> groups, duplicateAttrKeys |-> NoKeys]

\* a variant of PushFront that leaves out the attributes the root had
PushFrontReplace(h, hist, attrs) ==
    IF Len(hist.groups) = 0 \/ attrs.len = 0 THEN [hist |-> hist, heap |-> h]
    ELSE [hist |-> [hist EXCEPT !.groups[1].attrs = attrs], heap |-> h]

\* a variant of PushFront that puts the attributes in front of those of the
\* last group
PushFrontCurrent(h, hist, attrs) ==
    LET n == Len(hist.groups) IN
    IF n = 0 \/ attrs.len = 0 THEN [hist |-> hist, heap |-> h]
    ELSE [hist |-> [hist EXCEPT !.groups[n].attrs = appendAll(h, attrs, Elems(h, hist.groups[n].attrs))],
          heap |-> appendAllHeap(h, attrs, Elems(h, hist.groups[n].attrs))]

\* a variant of PushFront that also stores the first of attrs in the first
\* element of the backing array the root group had
PushFrontInPlace(h, hist, attrs) ==
    IF Len(hist.groups) = 0 \/ attrs.len = 0 THEN [hist |-> hist, heap |-> h]
    ELSE LET root == hist.groups[1].attrs
             h1 == appendAllHeap(h, attrs, Elems(h, root))
         IN  [hist |-> [hist EXCEPT !.groups[1].attrs = appendAll(h, attrs, Elems(h, root))],
              heap |-> IF root.len = 0 THEN h1 ELSE [h1 EXCEPT ![root.arr][1] = Elems(h, attrs)[1]]]

\* agh.PushFront(attrs) in memory h: [hist |-> the history afterwards,
\* heap |-> the memory afterwards]
PushFront(h, hist, attrs) ==
    IF Len(hist.groups) = 0 \/ attrs.len = 0 THEN [hist |-> hist, heap |-> h]
    ELSE [hist |-> [hist EXCEPT !.groups[1].attrs = appendAll(h, attrs, Elems(h, hist.groups[1].attrs))],
          heap |-> appendAllHeap(h, attrs, Elems(h, hist.groups[1].attrs))]

\* DeduplicatedAttrs on the object: [attrs |-> the slice returned,
\* keys |-> duplicateAttrKeys afterwards]
resolveHistory(h, hist) == resolve(hist.duplicateAttrKeys, Load(h, hist.groups))

(***************************************************************************)
(* One AttrGroupHistory and the calls made on it.  The history comes from  *)
(* History() on a tree built by one of the HandlerScripts, or is the zero  *)
(* AttrGroupHistory, which has no groups.                                  *)
(***************************************************************************)
\* calls made on the history in SpecHist
MaxHistOps == 3

kp == <<"p">>

\* attribute lists given to PushFront
PushLists ==
    { <<>>,
      <<Attr(ka, StringValue("7"))>>,
      <<Attr(kp, StringValue("8")), Attr(kg, GroupValue(<<Attr(ka, IntValue("9"))>>))>> }

InitHist ==
    /\ \E script \in HandlerScripts :
          LET built == Build([tree |-> NewAttrGroupTree, heap |-> <<>>], script)
          IN  /\ handler = built.tree
              /\ heap = built.heap
              /\ \/ agh = <<AttrGroupHistory(History(built.tree))>>
                 \/ script = <<>> /\ agh = <<AttrGroupHistory(<<>>)>>
    /\ pushes = <<>>
    /\ results = <<>>
    /\ trees = <<NewAttrGroupTree>>
    /\ derivation = <<Derived("New", 0, <<>>, <<>>)>>
    /\ in = [path |-> <<>>, attrs |-> <<>>]
    /\ out = <<>>
    /\ calls = <<>>
    /\ mu = 0
    /\ records = <<>>
    /\ NoReaders /\ NoContexts /\ NoSharing

\* agh.PushFront(attrs), attrs a slice of the caller with spare unused elements
HistPushFront(attrs, spare) ==
    /\ Len(pushes) + Len(results) < MaxHistOps
    /\ LET arg == MakeSlice(heap, attrs, spare)
           h1 == MakeSliceHeap(heap, attrs, spare)
           push == PushFront(h1, agh[1], arg)
           hist == push.hist
           h2 == push.heap
       IN  /\ agh' = <<hist>>
           /\ heap' = h2
           /\ pushes' = Append(pushes, [attrs |-> attrs,
                                        before |-> Load(heap, agh[1].groups),
                                        after |-> Load(h2, hist.groups),
                                        keysBefore |-> agh[1].duplicateAttrKeys,
                                        keysAfter |-> hist.duplicateAttrKeys])
    /\ UNCHANGED <<shareVars, readVars, ctxVars, trees, derivation, in, out, handler, calls, mu, records, results>>

\* agh.DeduplicatedAttrs()
HistDeduplicatedAttrs ==
    /\ Len(pushes) + Len(results) < MaxHistOps
    /\ LET r == resolveHistory(heap, agh[1])
       IN  /\ results' = Append(results, [attrs |-> r.attrs, pushes |-> Len(pushes)])
           /\ agh' = <<[agh[1] EXCEPT !.duplicateAttrKeys = r.keys]>>
    /\ UNCHANGED <<shareVars, readVars, ctxVars, heap, trees, derivation, in, out, handler, calls, mu, records, pushes>>

NextHist ==
    \/ \E attrs \in PushLists : \E spare \in 0..1 : HistPushFront(attrs, spare)
    \/ HistDeduplicatedAttrs

SpecHist == InitHist /\ [][NextHist]_vars

(***************************************************************************)
(* A history and the tree it was created from: PushFront calls on the      *)
(* history, in any order with WithAttrs and WithGroup calls on the tree    *)
(* and on the trees derived from it.  trees[1] is the tree of the history  *)
(* and in.groups what its groups held when the history was created.        *)
(***************************************************************************)
\* PushFront calls in SpecFrame
MaxFramePushes == 2

\* trees in SpecFrame, the tree of the history included
MaxFrameTrees == 3

InitFrame ==
    /\ \E script \in HandlerScripts :
          LET built == Build([tree |-> NewAttrGroupTree, heap |-> <<>>], script)
          IN  /\ handler = built.tree
              /\ trees = <<built.tree>>
              /\ heap = built.heap
              /\ agh = <<AttrGroupHistory(History(built.tree))>>
              /\ in = [groups |-> Load(built.heap, History(built.tree))]
    /\ derivation = <<Derived("New", 0, <<>>, <<>>)>>
    /\ pushes = <<>>
    /\ results = <<>>
    /\ out = <<>>
    /\ calls = <<>>
    /\ mu = 0
    /\ records = <<>>
    /\ NoReaders /\ NoContexts /\ NoSharing

NextFrame ==
    \/ /\ Len(pushes) < MaxFramePushes
       /\ \E attrs \in PushLists : \E spare \in 0..1 : HistPushFront(attrs, spare)
    \/ /\ Len(trees) < MaxFrameTrees
       /\ \E i \in 1..Len(trees) :
             \/ TreeWithAttrs(i, <<Attr(kb, StringValue("2"))>>)
             \/ TreeWithGroup(i, kg)

SpecFrame == InitFrame /\ [][NextFrame]_vars

(***************************************************************************)
(* slogctx: the attributes a context.Context carries.  A context is        *)
(* modelled by what ctx.Value returns for the two keys of the package:     *)
(* <<>> when the key has no value, else <<the []slog.Attr stored>>.        *)
(***************************************************************************)
ctxKeyWithAttrs == "ctxKeyWithAttrs"

ctxKeyWithRootAttrs == "ctxKeyWithRootAttrs"

\* context.Background()
Background == [attrs |-> <<>>, rootAttrs |-> <<>>]

\* ctx.Value(key).([]slog.Attr): <<>> when the assertion fails
Value(ctx, key) == IF key = ctxKeyWithAttrs THEN ctx.attrs ELSE ctx.rootAttrs

\* the attributes ctx carries under key, read from memory h
Carried(h, ctx, key) == IF Value(ctx, key) # <<>> THEN Elems(h, Value(ctx, key)[1]) ELSE <<>>

\* context.WithValue(ctx, key, val)
WithValue(ctx, key, val) ==
    IF key = ctxKeyWithAttrs THEN [ctx EXCEPT !.attrs = <<val>>]
    ELSE [ctx EXCEPT !.rootAttrs = <<val>>]

\* a variant of Clip that keeps the capacity
ClipNothing(s) == s

\* slices.Clip: s[:len(s):len(s)]
Clip(s) == [s EXCEPT !.cap = s.len]

\* the context addToContext returns; attrs is the caller's slice and the
\* memory after the call is addToContextHeap
addToContext(h, ctx, key, attrs) ==
    IF Value(ctx, key) # <<>>
    THEN WithValue(ctx, key, appendAll(h, Clip(Value(ctx, key)[1]), Elems(h, Clip(attrs))))
    ELSE WithValue(ctx, key, attrs)

addToContextHeap(h, ctx, key, attrs) ==
    IF Value(ctx, key) # <<>>
    THEN appendAllHeap(h, Clip(Value(ctx, key)[1]), Elems(h, Clip(attrs)))
    ELSE h

\* a variant of Extract that looks under the other key
ExtractOther(ctx, key) ==
    IF key = ctxKeyWithAttrs
    THEN (IF ctx.rootAttrs # <<>> THEN ctx.rootAttrs[1] ELSE NilSlice)
    ELSE (IF ctx.attrs # <<>> THEN ctx.attrs[1] ELSE NilSlice)

\* newCtxExtractor(key).Extract(ctx): the slice stored, nil without one
Extract(ctx, key) == IF Value(ctx, key) # <<>> THEN Value(ctx, key)[1] ELSE NilSlice

(***************************************************************************)
(* Contexts as steps: a caller holding ctxs[i], or nil (i = 0), derives a  *)
(* new context with WithAttrs or WithRootAttrs.  The variadic attrs reach  *)
(* the function as a slice of their own.                                   *)
(***************************************************************************)
\* contexts obtained in SpecCtx
MaxCtxs == 5

kc == <<"c">>

kd == <<"d">>

\* the calls a step chooses from: the key and the attributes given
CtxCalls ==
    { [key |-> ctxKeyWithAttrs, attrs |-> <<>>],
      [key |-> ctxKeyWithAttrs, attrs |-> <<Attr(kc, StringValue("1"))>>],
      [key |-> ctxKeyWithAttrs, attrs |-> <<Attr(kc, StringValue("2")), Attr(kd, IntValue("3"))>>],
      [key |-> ctxKeyWithAttrs, attrs |-> <<Attr(kd, StringValue("4"))>>],
      [key |-> ctxKeyWithRootAttrs, attrs |-> <<Attr(kc, StringValue("5"))>>] }

\* WithAttrs(ctx, attrs...) and WithRootAttrs(ctx, attrs...)
CtxWith(i, call) ==
    /\ Len(ctxs) < MaxCtxs
    /\ LET ctx == IF i = 0 THEN Background ELSE ctxs[i]
           arg == MakeSlice(heap, call.attrs, 0)
           h1 == MakeSliceHeap(heap, call.attrs, 0)
       IN  /\ ctxs' = Append(ctxs, addToContext(h1, ctx, call.key, arg))
           /\ heap' = addToContextHeap(h1, ctx, call.key, arg)
           /\ ctxDerivation' = Append(ctxDerivation, [key |-> call.key, recv |-> i, attrs |-> call.attrs])
    /\ UNCHANGED <<shareVars, readVars, histVars, trees, derivation, in, out, handler, calls, mu, records, passed, attrExtractors, rootAttrExtractors>>

InitCtx ==
    /\ heap = <<>>
    /\ ctxs = <<Background>>
    /\ ctxDerivation = <<[key |-> "", recv |-> 0, attrs |-> <<>>]>>
    /\ passed = <<>>
    /\ attrExtractors = <<>>
    /\ rootAttrExtractors = <<>>
    /\ trees = <<NewAttrGroupTree>>
    /\ derivation = <<Derived("New", 0, <<>>, <<>>)>>
    /\ in = [path |-> <<>>, attrs |-> <<>>]
    /\ out = <<>>
    /\ handler = NewAttrGroupTree
    /\ calls = <<>>
    /\ mu = 0
    /\ records = <<>>
    /\ NoReaders /\ NoHistory /\ NoSharing

NextCtx == \E i \in 0..Len(ctxs) : \E call \in CtxCalls : CtxWith(i, call)

SpecCtx == InitCtx /\ [][NextCtx]_vars

(***************************************************************************)
(* slogctx.Handler: Handle calls made one after another on one handler,    *)
(* each with a context, a record and a wrapped handler that returns nil or *)
(* an error.  The handler has the two extractors NewHandler gives it.      *)
(***************************************************************************)
\* Handle calls in SpecCtxHandle
MaxHandles == 2

\* the error value nil
NilError == <<>>

\* errors.New(text)
NewError(text) == <<[msg |-> text, unwrap |-> NilError]>>

\* fmt.Errorf(prefix + "%w", err)
Errorf(prefix, err) == <<[msg |-> prefix \o err[1].msg, unwrap |-> err]>>

\* a variant of HandleReturn that returns nil whatever the wrapped handler did
HandleReturnNil(err) == NilError

\* what Handle returns when the wrapped handler returned err
HandleReturn(err) ==
    IF err # NilError THEN Errorf("passing record to inner handler: ", err) ELSE NilError

\* the calls that made the context of a Handle call, from context.Background() on
CtxScripts ==
    { <<>>,
      <<[key |-> ctxKeyWithAttrs, attrs |-> <<Attr(kc, StringValue("1"))>>]>>,
      <<[key |-> ctxKeyWithRootAttrs, attrs |-> <<Attr(kc, StringValue("5"))>>]>>,
      <<[key |-> ctxKeyWithRootAttrs, attrs |-> <<Attr(ka, StringValue("5")), Attr(kc, StringValue("6"))>>],
        [key |-> ctxKeyWithAttrs, attrs |-> <<Attr(kr, StringValue("1"))>>],
        [key |-> ctxKeyWithRootAttrs, attrs |-> <<Attr(kd, StringValue("7"))>>]>>,
      <<[key |-> ctxKeyWithAttrs, attrs |-> <<>>],
        [key |-> ctxKeyWithRootAttrs, attrs |-> <<>>]>> }

\* the calls that gave the slogctx.Handler its persistent attributes
CtxHandlerScripts ==
    HandlerScripts \cup
    { <<Derived("WithAttrs", 0, <<Attr(ka, StringValue("1"))>>, <<>>),
        Derived("WithGroup", 0, <<>>, kg),
        Derived("WithAttrs", 0, <<Attr(kb, StringValue("2"))>>, <<>>),
        Derived("WithGroup", 0, <<>>, ka),
        Derived("WithAttrs", 0, <<Attr(ka, StringValue("3")), Attr(kb, IntValue("4"))>>, <<>>)>>,
      <<Derived("WithGroup", 0, <<>>, kg)>>,
      <<Derived("WithAttrs", 0, <<Attr(ka, StringValue("1"))>>, <<>>),
        Derived("WithGroup", 0, <<>>, kg),
        Derived("WithGroup", 0, <<>>, ka)>> }

\* the context and the memory after the calls of script, made one on the
\* result of the other from [ctx, heap] on
RECURSIVE BuildCtx(_, _)
BuildCtx(state, script) ==
    IF Len(script) = 0 THEN state
    ELSE LET call == Head(script)
             arg == MakeSlice(state.heap, call.attrs, 0)
             h1 == MakeSliceHeap(state.heap, call.attrs, 0)
         IN  BuildCtx([ctx |-> addToContext(h1, state.ctx, call.key, arg),
                       heap |-> addToContextHeap(h1, state.ctx, call.key, arg)],
                      Tail(script))

\* slog.Record.AddAttrs on the empty record slog.NewRecord returns: the
\* attributes the record holds afterwards.  AddAttrs leaves out the
\* attributes that are a group without members
AddAttrs(attrs) == SelectSeq(attrs, LAMBDA a : ~isEmptyGroup(a.Value))

\* newCtxExtractor(key)
newCtxExtractor(key) == [fn |-> "ctx", key |-> key, attrs |-> <<>>]

\* an ExtractorFunc of the caller that returns the slice literal
\* []slog.Attr{attrs...} whatever the context
LiteralExtractor(attrs) == [fn |-> "literal", key |-> "", attrs |-> attrs]

\* an ExtractorFunc of the caller that returns nil
NilExtractor == [fn |-> "nil", key |-> "", attrs |-> <<>>]

\* extractor.Extract(ctx) in memory h: [attrs |-> the slice returned,
\* heap |-> the memory afterwards]
ExtractorExtract(h, extractor, ctx) ==
    IF extractor.fn = "ctx" THEN [attrs |-> Extract(ctx, extractor.key), heap |-> h]
    ELSE IF extractor.fn = "nil" THEN [attrs |-> NilSlice, heap |-> h]
    ELSE [attrs |-> MakeSlice(h, extractor.attrs, 0), heap |-> MakeSliceHeap(h, extractor.attrs, 0)]

\* Handle, the loop over h.attrExtractors from state = [slice |-> recordAttrs,
\* heap |-> the memory] on
RECURSIVE runAttrExtractors(_, _, _)
runAttrExtractors(state, extractors, ctx) ==
    IF Len(extractors) = 0 THEN state
    ELSE LET ex == ExtractorExtract(state.heap, Head(extractors), ctx)
             elems == Elems(ex.heap, ex.attrs)
         IN  runAttrExtractors(IF ex.attrs.isNil THEN [state EXCEPT !.heap = ex.heap]
                               ELSE [slice |-> appendAll(ex.heap, state.slice, elems),
                                     heap |-> appendAllHeap(ex.heap, state.slice, elems)],
                               Tail(extractors), ctx)

\* Handle, the loop over h.rootAttrExtractors from state = [hist |->
\* orderedRecordedAttrs, heap |-> the memory] on
RECURSIVE runRootAttrExtractors(_, _, _)
runRootAttrExtractors(state, extractors, ctx) ==
    IF Len(extractors) = 0 THEN state
    ELSE LET ex == ExtractorExtract(state.heap, Head(extractors), ctx)
             pushed == PushFront(ex.heap, state.hist, ex.attrs)
         IN  runRootAttrExtractors(IF ex.attrs.isNil THEN [state EXCEPT !.heap = ex.heap]
                                   ELSE pushed,
                                   Tail(extractors), ctx)

\* Handle up to the call of the wrapped handler, for the handler with
\* persistentAttrs tree and the extractors given: [attrs |-> the attributes
\* of the record passed on, heap |-> the memory afterwards]
HandleAttrs(h, tree, extractors, rootExtractors, ctx, attrs) ==
    LET made == IF Len(attrs) = 0 THEN EmptySlice ELSE MakeSlice(h, attrs, 0)
        h0 == MakeSliceHeap(h, attrs, 0)
        recordAttrs == runAttrExtractors([slice |-> made, heap |-> h0], extractors, ctx)
        h1 == recordAttrs.heap
        withRecord == WithAttrs(h1, tree, Elems(h1, recordAttrs.slice))
        h2 == WithAttrsHeap(h1, tree, Elems(h1, recordAttrs.slice))
        orderedRecordedAttrs ==
            runRootAttrExtractors([hist |-> AttrGroupHistory(History(withRecord)), heap |-> h2],
                                  rootExtractors, ctx)
    IN  [attrs |-> AddAttrs(resolveHistory(orderedRecordedAttrs.heap, orderedRecordedAttrs.hist).attrs),
         heap |-> orderedRecordedAttrs.heap]

\* a handler made by NewHandler and one of scripts, and a context made by
\* one of ctxScripts
InitCtxHandleWith(scripts, ctxScripts) ==
    /\ \E script \in scripts : \E ctxScript \in ctxScripts :
          LET built == Build([tree |-> NewAttrGroupTree, heap |-> <<>>], script)
              ctx == BuildCtx([ctx |-> Background, heap |-> built.heap], ctxScript)
          IN  /\ handler = built.tree
              /\ ctxs = <<ctx.ctx>>
              /\ ctxDerivation = <<[key |-> "", recv |-> 0, attrs |-> <<>>]>>
              /\ heap = ctx.heap
    /\ passed = <<>>
    /\ attrExtractors = <<newCtxExtractor(ctxKeyWithAttrs)>>
    /\ rootAttrExtractors = <<newCtxExtractor(ctxKeyWithRootAttrs)>>
    /\ trees = <<NewAttrGroupTree>>
    /\ derivation = <<Derived("New", 0, <<>>, <<>>)>>
    /\ in = [path |-> <<>>, attrs |-> <<>>]
    /\ out = <<>>
    /\ calls = <<>>
    /\ mu = 0
    /\ records = <<>>
    /\ NoReaders /\ NoHistory /\ NoSharing

InitCtxHandle == InitCtxHandleWith(CtxHandlerScripts, CtxScripts)

\* h.AddAttrExtractors(extractor)
AddAttrExtractors(extractor) ==
    /\ attrExtractors' = Append(attrExtractors, extractor)
    /\ UNCHANGED <<shareVars, readVars, histVars, heap, trees, derivation, in, out, handler, calls, mu, records,
                   ctxs, ctxDerivation, passed, rootAttrExtractors>>

\* h.AddRootAttrExtractors(extractor)
AddRootAttrExtractors(extractor) ==
    /\ rootAttrExtractors' = Append(rootAttrExtractors, extractor)
    /\ UNCHANGED <<shareVars, readVars, histVars, heap, trees, derivation, in, out, handler, calls, mu, records,
                   ctxs, ctxDerivation, passed, attrExtractors>>

\* h.Handle(ctxs[i], record) with a record of n attributes; the wrapped
\* handler returns err
CtxHandle(i, n, err) ==
    /\ Len(passed) < MaxHandles
    /\ LET run == HandleAttrs(heap, handler, attrExtractors, rootAttrExtractors, ctxs[i],
                              RecordAttrs(Len(passed) + 1, n))
       IN  /\ heap' = run.heap
           /\ passed' = Append(passed, [ctx |-> i,
                                        recordAttrs |-> RecordAttrs(Len(passed) + 1, n),
                                        groups |-> Load(heap, History(handler)),
                                        ctxAttrs |-> Carried(heap, ctxs[i], ctxKeyWithAttrs),
                                        ctxRootAttrs |-> Carried(heap, ctxs[i], ctxKeyWithRootAttrs),
                                        extractors |-> attrExtractors,
                                        rootExtractors |-> rootAttrExtractors,
                                        attrs |-> run.attrs,
                                        wrapped |-> err,
                                        err |-> HandleReturn(err)])
    /\ UNCHANGED <<shareVars, readVars, histVars, trees, derivation, in, out, handler, calls, mu, records,
                   ctxs, ctxDerivation, attrExtractors, rootAttrExtractors>>

NextCtxHandle ==
    \E i \in 1..Len(ctxs) : \E n \in 0..2 : \E err \in {NilError, NewError("some internal error")} :
        CtxHandle(i, n, err)

SpecCtxHandle == InitCtxHandle /\ [][NextCtxHandle]_vars

(***************************************************************************)
(* slogctx.Handler with extractors of the caller: AddAttrExtractors and    *)
(* AddRootAttrExtractors are called on the handler between its Handle      *)
(* calls.                                                                  *)
(***************************************************************************)
\* extractors added to each list of the handler in SpecExtract
MaxAdded == 1

\* Handle calls in SpecExtract
MaxExtractHandles == 1

ke == <<"e">>

\* the extractors a caller adds
AddedExtractors ==
    { LiteralExtractor(<<Attr(ka, StringValue("8")), Attr(ke, StringValue("9"))>>),
      NilExtractor }

\* the calls that gave the handler its persistent attributes
ExtractHandlerScripts ==
    { <<>>,
      <<Derived("WithAttrs", 0, <<Attr(ka, StringValue("3")), Attr(kb, IntValue("4"))>>, <<>>),
        Derived("WithAttrs", 0, <<Attr(ka, StringValue("1"))>>, <<>>)>>,
      <<Derived("WithAttrs", 0, <<Attr(ka, StringValue("1"))>>, <<>>),
        Derived("WithGroup", 0, <<>>, kg),
        Derived("WithAttrs", 0, <<Attr(kb, StringValue("2"))>>, <<>>),
        Derived("WithGroup", 0, <<>>, ka),
        Derived("WithAttrs", 0, <<Attr(ka, StringValue("3")), Attr(kb, IntValue("4"))>>, <<>>)>>,
      <<Derived("WithAttrs", 0, <<Attr(ka, StringValue("1"))>>, <<>>),
        Derived("WithGroup", 0, <<>>, kg),
        Derived("WithGroup", 0, <<>>, ka)>> }

\* the calls that made the context of the Handle calls
ExtractCtxScripts ==
    { <<>>,
      <<[key |-> ctxKeyWithRootAttrs, attrs |-> <<Attr(ka, StringValue("5")), Attr(kc, StringValue("6"))>>],
        [key |-> ctxKeyWithAttrs, attrs |-> <<Attr(kr, StringValue("1"))>>],
        [key |-> ctxKeyWithRootAttrs, attrs |-> <<Attr(kd, StringValue("7"))>>]>> }

InitExtract == InitCtxHandleWith(ExtractHandlerScripts, ExtractCtxScripts)

NextExtract ==
    \/ /\ Len(passed) < MaxExtractHandles
       /\ \E i \in 1..Len(ctxs) : \E n \in 0..2 : \E err \in {NilError, NewError("some internal error")} :
             CtxHandle(i, n, err)
    \/ /\ Len(attrExtractors) < 1 + MaxAdded
       /\ \E extractor \in AddedExtractors : AddAttrExtractors(extractor)
    \/ /\ Len(rootAttrExtractors) < 1 + MaxAdded
       /\ \E extractor \in AddedExtractors : AddRootAttrExtractors(extractor)

SpecExtract == InitExtract /\ [][NextExtract]_vars

(***************************************************************************)
(* slogctx.Handler: NRaceCalls goroutines call Handle with one context,    *)
(* ctxs[2], each on a handler of its own.  A call runs                     *)
(*   recordAttrs, the append extractors,                                   *)
(*   h.persistentAttrs.WithAttrs(recordAttrs).History()     begin          *)
(*   the root extractors, orderedRecordedAttrs.PushFront    push           *)
(*   orderedRecordedAttrs.DeduplicatedAttrs()               resolve        *)
(* The calls are not synchronised: what PushFront writes into a backing    *)
(* array that the calls share is read by whichever call resolves next.     *)
(***************************************************************************)
\* concurrent Handle calls in SpecRace
NRaceCalls == 2

kh == <<"h">>

\* the calls that made the context the Handle calls are given
RaceCtxScripts ==
    { <<[key |-> ctxKeyWithRootAttrs, attrs |-> <<Attr(kc, StringValue("5"))>>]>>,
      <<[key |-> ctxKeyWithRootAttrs, attrs |-> <<Attr(kc, StringValue("5"))>>],
        [key |-> ctxKeyWithRootAttrs, attrs |-> <<Attr(kd, StringValue("6"))>>]>>,
      <<[key |-> ctxKeyWithRootAttrs, attrs |-> <<Attr(kc, StringValue("5"))>>],
        [key |-> ctxKeyWithRootAttrs, attrs |-> <<Attr(kd, StringValue("6"))>>],
        [key |-> ctxKeyWithRootAttrs, attrs |-> <<Attr(kc, StringValue("7"))>>]>> }

\* the calls that gave the handler of call c its persistent attributes:
\* one root attribute that names c, with or without a group entered after it
RaceHandlerScript(c, grouped) ==
    <<Derived("WithAttrs", 0, <<Attr(kh, IntValue(Digits[c + 1]))>>, <<>>)>>
        \o (IF grouped THEN <<Derived("WithGroup", 0, <<>>, kg)>> ELSE <<>>)

\* the handlers of the calls 1..n, built one after the other from memory h on
RECURSIVE RaceHandlers(_, _, _)
RaceHandlers(h, n, grouped) ==
    IF n = 0 THEN [trees |-> <<>>, heap |-> h]
    ELSE LET rest == RaceHandlers(h, n - 1, grouped)
             built == Build([tree |-> NewAttrGroupTree, heap |-> rest.heap], RaceHandlerScript(n, grouped))
         IN  [trees |-> Append(rest.trees, built.tree), heap |-> built.heap]

InitRace ==
    /\ \E ctxScript \in RaceCtxScripts : \E grouped \in BOOLEAN : \E n \in [1..NRaceCalls -> 0..1] :
          LET ctx == BuildCtx([ctx |-> Background, heap |-> <<>>], ctxScript)
              built == RaceHandlers(ctx.heap, NRaceCalls, grouped)
          IN  /\ ctxs = <<Background, ctx.ctx>>
              /\ heap = built.heap
              /\ calls = [c \in 1..NRaceCalls |->
                            [pc |-> "begin", persistentAttrs |-> built.trees[c],
                             recordAttrs |-> RecordAttrs(c, n[c]),
                             tree |-> NewAttrGroupTree, hist |-> AttrGroupHistory(<<>>),
                             attrs |-> <<>>]]
    /\ ctxDerivation = <<[key |-> "", recv |-> 0, attrs |-> <<>>],
                         [key |-> "", recv |-> 1, attrs |-> <<>>]>>
    /\ passed = <<>>
    /\ attrExtractors = <<newCtxExtractor(ctxKeyWithAttrs)>>
    /\ rootAttrExtractors = <<newCtxExtractor(ctxKeyWithRootAttrs)>>
    /\ trees = <<NewAttrGroupTree>>
    /\ derivation = <<Derived("New", 0, <<>>, <<>>)>>
    /\ in = [path |-> <<>>, attrs |-> <<>>]
    /\ out = <<>>
    /\ handler = NewAttrGroupTree
    /\ mu = 0
    /\ records = <<>>
    /\ NoReaders /\ NoHistory /\ NoSharing

\* Handle up to History(): the record's attributes, then those of the
\* append extractors, are added to a copy of the persistent attributes
RaceBegin(c) ==
    /\ calls[c].pc = "begin"
    /\ LET attrs == calls[c].recordAttrs
           made == IF Len(attrs) = 0 THEN EmptySlice ELSE MakeSlice(heap, attrs, 0)
           h0 == MakeSliceHeap(heap, attrs, 0)
           recordAttrs == runAttrExtractors([slice |-> made, heap |-> h0], attrExtractors, ctxs[2])
           h1 == recordAttrs.heap
           withRecord == WithAttrs(h1, calls[c].persistentAttrs, Elems(h1, recordAttrs.slice))
       IN  /\ heap' = WithAttrsHeap(h1, calls[c].persistentAttrs, Elems(h1, recordAttrs.slice))
           /\ calls' = [calls EXCEPT ![c].tree = withRecord,
                                     ![c].hist = AttrGroupHistory(History(withRecord)),
                                     ![c].pc = "push"]
    /\ UNCHANGED <<shareVars, readVars, histVars, ctxVars, trees, derivation, in, out, handler, mu, records>>

\* the root extractors: PushFront of the slice the context holds
RacePush(c) ==
    /\ calls[c].pc = "push"
    /\ LET pushed == runRootAttrExtractors([hist |-> calls[c].hist, heap |-> heap], rootAttrExtractors, ctxs[2])
       IN  /\ heap' = pushed.heap
           /\ calls' = [calls EXCEPT ![c].hist = pushed.hist, ![c].pc = "resolve"]
    /\ UNCHANGED <<shareVars, readVars, histVars, ctxVars, trees, derivation, in, out, handler, mu, records>>

\* DeduplicatedAttrs reads the attribute lists from memory; record.AddAttrs
\* puts the result into the record the wrapped handler is passed
RaceResolve(c) ==
    /\ calls[c].pc = "resolve"
    /\ calls' = [calls EXCEPT ![c].attrs = AddAttrs(resolveHistory(heap, calls[c].hist).attrs),
                              ![c].pc = "done"]
    /\ UNCHANGED <<shareVars, readVars, histVars, ctxVars, heap, trees, derivation, in, out, handler, mu, records>>

NextRace ==
    \E c \in 1..NRaceCalls :
        \/ RaceBegin(c)
        \/ RacePush(c)
        \/ RaceResolve(c)

SpecRace == InitRace /\ [][NextRace]_vars

(***************************************************************************)
(* slogmem/record.go: querying the captured records.  A map[string]any     *)
(* with its nested maps is modelled as a function from paths (sequences of *)
(* keys, a key a Go string) to nodes: a node is a nested map or a value.   *)
(***************************************************************************)
\* slog.TimeKey, slog.LevelKey, slog.MessageKey
TimeKey == <<"t", "i", "m", "e">>

LevelKey == <<"l", "e", "v", "e", "l">>

MessageKey == <<"m", "s", "g">>

\* strings.Split(s, sep) for a separator of one character
RECURSIVE Split(_, _)
Split(s, sep) ==
    IF \A i \in 1..Len(s) : s[i] # sep THEN <<s>>
    ELSE LET i == CHOOSE j \in 1..Len(s) : s[j] = sep /\ \A l \in 1..(j - 1) : s[l] # sep
         IN  <<SubSeq(s, 1, i - 1)>> \o Split(SubSeq(s, i + 1, Len(s)), sep)

\* make(map[string]any)
EmptyMap == [path \in {} |-> 0]

\* a nested map as a node, and value.Any() as a node: a value of a kind
\* other than group is stored as it is, a LogValuer unresolved
MapNode == [map |-> TRUE, kind |-> "", val |-> "", grp |-> <<>>, err |-> <<>>]

Leaf(value) ==
    [map |-> FALSE, kind |-> value.kind, val |-> value.val, grp |-> value.grp, err |-> value.err]

\* the time, the level and the message of a record as nodes
TimeLeaf(t) == [map |-> FALSE, kind |-> "Time", val |-> t, grp |-> <<>>, err |-> <<>>]

LevelLeaf(level) == [map |-> FALSE, kind |-> "Level", val |-> level, grp |-> <<>>, err |-> <<>>]

StringLeaf(str) == Leaf(StringValue(str))

\* record[...] = node at path: whatever was at the path or below it is gone
Put(record, path, node) ==
    LET kept == {p \in DOMAIN record : ~IsPrefix(path, p)}
    IN  [p \in kept \cup {path} |-> IF p = path THEN node ELSE record[p]]

\* mapAttr on the map at path at of record, and the loop over a list
RECURSIVE mapAttr(_, _, _)
RECURSIVE mapAttrs(_, _, _)
mapAttr(record, at, attr) ==
    IF attr.Value.kind # "Group"
    THEN Put(record, at \o <<attr.Key>>, Leaf(attr.Value))
    ELSE mapAttrs(Put(record, at \o <<attr.Key>>, MapNode), at \o <<attr.Key>>, attr.Value.grp)

mapAttrs(record, at, attrs) ==
    IF Len(attrs) = 0 THEN record
    ELSE mapAttrs(mapAttr(record, at, Head(attrs)), at, Tail(attrs))

\* one element of AsSliceOfNestedKeyValuePairs
flattenRecord(rec) ==
    mapAttrs(Put(Put(Put(EmptyMap,
                 <<TimeKey>>, TimeLeaf(rec.Time)),
                 <<LevelKey>>, LevelLeaf(rec.Level)),
                 <<MessageKey>>, StringLeaf(rec.Message)),
             <<>>, rec.Attrs)

\* the messages of the two panics of recursiveSetField
GroupValuePanic ==
    "slog.GroupValue cannot be used as a value when checking attrs, for nested attrs use dot notation instead"

AttrValueTypePanic == "unexpected attr value type"

\* the outcome of a call that panicked
Panic(message) == [panic |-> message, map |-> EmptyMap]

Returned(record) == [panic |-> "", map |-> record]

\* a variant of recursiveSetField that stores a value of any kind
RECURSIVE recursiveSetFieldAnyKind(_, _, _, _)
recursiveSetFieldAnyKind(record, at, keys, value) ==
    LET currentKey == at \o <<keys[1]>> IN
    IF Len(keys) = 1
    THEN Returned(Put(record, currentKey, Leaf(value)))
    ELSE IF currentKey \in DOMAIN record
    THEN IF ~record[currentKey].map
         THEN Panic(AttrValueTypePanic)
         ELSE recursiveSetFieldAnyKind(record, currentKey, Tail(keys), value)
    ELSE recursiveSetFieldAnyKind(Put(record, currentKey, MapNode), currentKey, Tail(keys), value)

\* recursiveSetField on the map at path at of record, keys the split fieldPath
RECURSIVE recursiveSetField(_, _, _, _)
recursiveSetField(record, at, keys, value) ==
    LET currentKey == at \o <<keys[1]>> IN
    IF Len(keys) = 1
    THEN IF value.kind = "Group"
         THEN Panic(GroupValuePanic)
         ELSE Returned(Put(record, currentKey, Leaf(value)))
    ELSE IF currentKey \in DOMAIN record
    THEN IF ~record[currentKey].map
         THEN Panic(AttrValueTypePanic)
         ELSE recursiveSetField(record, currentKey, Tail(keys), value)
    ELSE recursiveSetField(Put(record, currentKey, MapNode), currentKey, Tail(keys), value)

\* flattenRecordQuery, the range over recordQuery.Attrs visiting the paths
\* in the given order
RECURSIVE setFields(_, _, _)
setFields(flattened, attrs, order) ==
    IF flattened.panic # "" \/ Len(order) = 0 THEN flattened
    ELSE setFields(recursiveSetField(flattened.map, <<>>, Split(Head(order), "."), attrs[Head(order)]),
                   attrs, Tail(order))

flattenRecordQuery(recordQuery, order) ==
    setFields(Returned(Put(Put(EmptyMap,
                  <<LevelKey>>, LevelLeaf(recordQuery.Level)),
                  <<MessageKey>>, StringLeaf(recordQuery.Message))),
              recordQuery.Attrs, order)

\* cmpOpts: IgnoreMapEntries drops every map entry with the key "time"
ignoredEntry(path) == path[Len(path)] = TimeKey

\* includePaths: a path is ignored unless it is a prefix of an included path
ignoredPath(path, include) == ~\E pathToInclude \in include : IsPrefix(path, pathToInclude)

\* x.(error) and x.(string) succeed
isError(x) == ~x.map /\ x.err # <<>>

isString(x) == ~x.map /\ x.kind = "String"

areConcreteErrors(x, y) == isError(x) /\ isError(y)

compareErrorStrings(x, y) == x.err[1] = y.err[1]

isStringAndError(x, y) == (isString(x) /\ isError(y)) \/ (isString(y) /\ isError(x))

compareStringAndError(x, y) == IF isString(x) THEN x.val = y.err[1] ELSE y.val = x.err[1]

\* cmpOpts: two values that implement error, or a string and such a value,
\* are compared by the text of the error, whatever else the values are
compareValues(x, y) ==
    IF areConcreteErrors(x, y) THEN compareErrorStrings(x, y)
    ELSE IF isStringAndError(x, y) THEN compareStringAndError(x, y)
    ELSE x = y

\* cmp.Equal(x, y, opts...) on two flattened maps; include is the set of
\* split paths of includePaths, filter tells whether that option is given
cmpEqual(x, y, include, filter) ==
    \A p \in (DOMAIN x) \cup (DOMAIN y) :
        \/ \E n \in 1..Len(p) :
              \/ ignoredEntry(SubSeq(p, 1, n))
              \/ filter /\ ignoredPath(SubSeq(p, 1, n), include)
        \/ /\ p \in DOMAIN x /\ p \in DOMAIN y
           /\ compareValues(x[p], y[p])

\* LoggedRecords.compare: "true" or "false" for the first return value, or
\* the message of the panic that ended the call
compare(logged, query, order, include, filter) ==
    LET flattenedQuery == flattenRecordQuery(query, order) IN
    IF flattenedQuery.panic # "" THEN flattenedQuery.panic
    ELSE IF \E i \in 1..Len(logged) :
               cmpEqual(flattenedQuery.map, flattenRecord(logged[i]), include, filter)
         THEN "true"
         ELSE "false"

\* Contains(query): the first return value
RecordsContains(logged, query, order) ==
    compare(logged, query, order,
            {Split(p, ".") : p \in (DOMAIN query.Attrs) \cup {MessageKey, LevelKey}}, TRUE)

\* ContainsExact(query): the first return value
RecordsContainsExact(logged, query, order) == compare(logged, query, order, {}, FALSE)

(***************************************************************************)
(* One query on the records NewLoggedRecords was given.  The range over    *)
(* the map query.Attrs visits the paths in an order the runtime chooses.   *)
(***************************************************************************)
\* paths in the Attrs of a query in SpecQuery
MaxQueryAttrs == 3

kt == TimeKey

\* the records of the lists in SpecQuery
LoggedA ==
    [Time |-> "t1", Level |-> "INFO", Message |-> "m",
     Attrs |-> <<Attr(ka, StringValue("1")), Attr(kg, GroupValue(<<Attr(kb, IntValue("2"))>>))>>]

LoggedB ==
    [Time |-> "t2", Level |-> "INFO", Message |-> "m",
     Attrs |-> <<Attr(kg, GroupValue(<<Attr(kb, IntValue("2")), Attr(kt, StringValue("1"))>>))>>]

LoggedC ==
    [Time |-> "t3", Level |-> "DEBUG", Message |-> "n",
     Attrs |-> <<Attr(ka, ErrorValue("1"))>>]

LoggedD ==
    [Time |-> "t4", Level |-> "INFO", Message |-> "m",
     Attrs |-> <<Attr(MessageKey, StringValue("n"))>>]

LoggedE ==
    [Time |-> "t5", Level |-> "INFO", Message |-> "m",
     Attrs |-> <<Attr(ka, GroupValue(<<Attr(kb, StringValue("1"))>>))>>]

\* a record whose attribute is a LogValuer that implements error, stored as
\* NewLoggedRecords was given it
LoggedF ==
    [Time |-> "t6", Level |-> "INFO", Message |-> "m",
     Attrs |-> <<Attr(ka, LogValuerError("1", <<Attr(kb, IntValue("2"))>>))>>]

LoggedLists ==
    { <<>>, <<LoggedA>>, <<LoggedB>>, <<LoggedC, LoggedA>>, <<LoggedD>>, <<LoggedE>>,
      <<LoggedB, LoggedE>>, <<LoggedF>> }

\* the paths and the expected values of the queries
QueryPaths ==
    { <<"a">>, <<"a", ".", "b">>, <<"g", ".", "b">>, <<"g", ".", "t", "i", "m", "e">>,
      <<"m", "s", "g", ".", "b">> }

QueryValues ==
    { StringValue("1"), IntValue("2"), ErrorValue("1"), GroupValue(<<Attr(kb, StringValue("1"))>>) }

Queries ==
    UNION { [Level : {"INFO", "DEBUG"}, Message : {"m", "n"}, Attrs : [paths -> QueryValues]]
            : paths \in {ps \in SUBSET QueryPaths : Cardinality(ps) <= MaxQueryAttrs} }

\* the orders in which the elements of a set can be visited
RECURSIVE Orders(_)
Orders(set) ==
    IF set = {} THEN {<<>>}
    ELSE UNION { {<<x>> \o rest : rest \in Orders(set \ {x})} : x \in set }

InitQuery ==
    /\ records \in LoggedLists
    /\ \E query \in Queries : \E order \in Orders(DOMAIN query.Attrs) : \E exact \in BOOLEAN :
          in = [query |-> query, order |-> order, exact |-> exact]
    /\ out = <<>>
    /\ heap = <<>>
    /\ trees = <<NewAttrGroupTree>>
    /\ derivation = <<Derived("New", 0, <<>>, <<>>)>>
    /\ handler = NewAttrGroupTree
    /\ calls = <<>>
    /\ mu = 0
    /\ NoReaders /\ NoHistory /\ NoContexts /\ NoSharing

\* Contains(query) or ContainsExact(query) on the records
QueryCall ==
    /\ out = <<>>
    /\ out' = <<IF in.exact THEN RecordsContainsExact(records, in.query, in.order)
                ELSE RecordsContains(records, in.query, in.order)>>
    /\ UNCHANGED <<shareVars, readVars, histVars, ctxVars, heap, trees, derivation, in, handler, calls, mu, records>>

NextQuery == QueryCall

SpecQuery == InitQuery /\ [][NextQuery]_vars

(***************************************************************************)
(* Vocabulary of the properties                                            *)
(***************************************************************************)
\* key k#NN, NN the two-digit decimal of n (0 < n < 100); k itself for n = 0
Suffixed(key, n) ==
    IF n = 0 THEN key
    ELSE key \o <<"#", Digits[(n \div 10) + 1], Digits[(n % 10) + 1]>>

\* how many attributes before position p of list have the key of list[p]
Earlier(list, p) == Cardinality({q \in 1..(p - 1) : list[q].Key = list[p].Key})

IsScalar(attr) == attr # ZeroAttr /\ attr.Value.kind \notin {"Group", "LogValuer"}

IsGroup(attr) == attr.Value.kind = "Group"

\* a group-valued attribute with a non-empty key and at least one child
IsNamedGroup(attr) == IsGroup(attr) /\ attr.Key # <<>> /\ Len(attr.Value.grp) > 0

\* a group-valued attribute with an empty key and at least one child
IsInlineGroup(attr) == IsGroup(attr) /\ attr.Key = <<>> /\ Len(attr.Value.grp) > 0

AllOf(list, P(_)) == \A p \in 1..Len(list) : P(list[p])

\* the groups of tree number t, oldest first, with the attributes they show
GroupsOf(t) == Load(heap, History(trees[t]))

\* what History().DeduplicatedAttrs() returns for tree number t
Output(t) == DeduplicatedAttrs(heap, trees[t])

\* the attribute list emitted for the j-th group of a history: the output
\* itself for the root, else the children of the group closing the level above
RECURSIVE OutLevel(_, _)
OutLevel(output, j) ==
    IF j = 1 THEN output
    ELSE IF Len(output) = 0 \/ ~IsGroup(output[Len(output)]) THEN <<>>
    ELSE OutLevel(output[Len(output)].Value.grp, j - 1)

\* the keys of a list, of the children of its groups, and so on
RECURSIVE KeysIn(_)
KeysIn(list) ==
    UNION { {list[p].Key} \cup (IF IsGroup(list[p]) THEN KeysIn(list[p].Value.grp) ELSE {})
            : p \in 1..Len(list) }

\* list[p] is emitted under the key its position among the equal keys asks for
NumberedAt(list, emitted, p) ==
    /\ p <= Len(emitted)
    /\ emitted[p].Key = Suffixed(list[p].Key, Earlier(list, p))
    /\ IF IsGroup(list[p]) THEN IsGroup(emitted[p]) ELSE emitted[p].Value = list[p].Value

\* C1: the attributes of one group level that are scalars or named non-empty
\* groups are emitted in input order, values unchanged, the first of each key
\* under the key itself and the i-th later one under key#NN with NN = i
C1_Numbered ==
    \A t \in 1..Len(trees) : \A j \in 1..Len(GroupsOf(t)) :
        LET list == GroupsOf(t)[j].attrs
            emitted == OutLevel(Output(t), j)
        IN  (Len(list) > 0 /\ AllOf(list, LAMBDA x : IsScalar(x) \/ IsNamedGroup(x)))
                => \A p \in 1..Len(list) : NumberedAt(list, emitted, p)

\* C2: a root scalar with key k, then WithGroup(k) holding attributes, is
\* emitted as the scalar under k and, after it, the group under k#01
C2_EnteredGroupNumbered ==
    \A t \in 1..Len(trees) :
        LET groups == GroupsOf(t)
            emitted == Output(t)
        IN  (/\ Len(groups) = 2
             /\ AllOf(groups[1].attrs, IsScalar)
             /\ Cardinality({p \in 1..Len(groups[1].attrs) : groups[1].attrs[p].Key = groups[2].name}) = 1
             /\ Len(groups[2].attrs) > 0
             /\ AllOf(groups[2].attrs, IsScalar))
            => /\ Len(emitted) = Len(groups[1].attrs) + 1
               /\ \A p \in 1..Len(groups[1].attrs) :
                     groups[1].attrs[p].Key = groups[2].name => emitted[p] = groups[1].attrs[p]
               /\ emitted[Len(emitted)].Key = Suffixed(groups[2].name, 1)
               /\ IsGroup(emitted[Len(emitted)])

\* C3: a group entered with WithGroup(g) to which, and below which, no
\* attribute is added leaves no attribute with key g in the output
C3_EmptyEnteredGroupDropped ==
    \A t \in 1..Len(trees) :
        LET groups == GroupsOf(t) IN
        \A j \in 2..Len(groups) :
            (/\ \A i \in j..Len(groups) : Len(groups[i].attrs) = 0
             /\ \A i \in 1..(j - 1) : /\ groups[i].name # groups[j].name
                                      /\ groups[j].name \notin KeysIn(groups[i].attrs))
            => groups[j].name \notin KeysIn(Output(t))

\* C4: two named non-empty groups with the same key g in one attribute list
\* are emitted as g and g#01, the children of each numbered on their own
C4_SameKeyGroupsIndependent ==
    \A t \in 1..Len(trees) : \A j \in 1..Len(GroupsOf(t)) :
        LET list == GroupsOf(t)[j].attrs
            emitted == OutLevel(Output(t), j)
        IN  \A p, q \in 1..Len(list) :
                (/\ p < q
                 /\ IsNamedGroup(list[p]) /\ IsNamedGroup(list[q])
                 /\ list[p].Key = list[q].Key
                 /\ \A r \in 1..Len(list) : list[r].Key = list[p].Key => r \in {p, q}
                 /\ AllOf(list[p].Value.grp, IsScalar)
                 /\ AllOf(list[q].Value.grp, IsScalar))
                => /\ q <= Len(emitted)
                   /\ emitted[p].Key = list[p].Key
                   /\ emitted[q].Key = Suffixed(list[q].Key, 1)
                   /\ IsGroup(emitted[p]) /\ IsGroup(emitted[q])
                   /\ \A r \in 1..Len(list[p].Value.grp) :
                         NumberedAt(list[p].Value.grp, emitted[p].Value.grp, r)
                   /\ \A r \in 1..Len(list[q].Value.grp) :
                         NumberedAt(list[q].Value.grp, emitted[q].Value.grp, r)

\* the list with the children of every unnamed group put in the group's place
RECURSIVE Spliced(_)
Spliced(list) ==
    IF Len(list) = 0 THEN <<>>
    ELSE (IF IsGroup(Head(list)) /\ Head(list).Key = <<>>
          THEN Spliced(Head(list).Value.grp)
          ELSE <<Head(list)>>) \o Spliced(Tail(list))

\* C5: the children of an unnamed group take the place of the group and are
\* numbered together with the group's siblings, at the root and in any group
C5_InlineGroupSpliced ==
    \A t \in 1..Len(trees) : \A j \in 1..Len(GroupsOf(t)) :
        LET list == GroupsOf(t)[j].attrs
            emitted == OutLevel(Output(t), j)
        IN  (/\ AllOf(list, LAMBDA x : IsScalar(x) \/ (IsInlineGroup(x) /\ AllOf(x.Value.grp, IsScalar)))
             /\ \E p \in 1..Len(list) : IsInlineGroup(list[p]))
            => \A p \in 1..Len(Spliced(list)) : NumberedAt(Spliced(list), emitted, p)

\* the values of an emitted list in order, keys left out, groups as lists
RECURSIVE Shape(_)
Shape(list) ==
    [p \in 1..Len(list) |->
        IF IsGroup(list[p])
        THEN [kind |-> "Group", val |-> "", grp |-> Shape(list[p].Value.grp), err |-> <<>>]
        ELSE list[p].Value]

\* the values a list is to be emitted as: nothing for a zero Attr and for a
\* named group without children, the children themselves for an unnamed
\* group, every other attribute in place; a group value holds what its
\* children are emitted as, less the groups that hold nothing
RECURSIVE Kept(_)
Kept(list) ==
    IF Len(list) = 0 THEN <<>>
    ELSE LET attr == Head(list)
             value == Resolve(attr.Value)
         IN  (IF attr = ZeroAttr THEN <<>>
              ELSE IF value.kind # "Group" THEN <<value>>
              ELSE IF attr.Key = <<>> THEN Kept(value.grp)
              ELSE IF Len(value.grp) = 0 THEN <<>>
              ELSE <<[kind |-> "Group", val |-> "",
                      grp |-> SelectSeq(Kept(value.grp), LAMBDA v : ~isEmptyGroup(v)),
                      err |-> <<>>]>>)
             \o Kept(Tail(list))

\* C6: resolveAttrs emits nothing for a zero Attr and nothing for a named
\* group with zero children, at every nesting level, and emits all other
\* attributes of the list in their relative order
C6_EmptyDropped ==
    out # <<>> => Shape(out[1].attrs) = Kept(in.attrs)

\* a call whose list holds a zero Attr, an empty named group and a group
\* that holds both next to a scalar, and which emitted something
C6_Witness ==
    /\ out # <<>>
    /\ \E p, q, r \in 1..Len(in.attrs) :
          /\ in.attrs[p] = ZeroAttr
          /\ in.attrs[q] = Attr(kg, GroupValue(<<>>))
          /\ IsNamedGroup(in.attrs[r]) /\ Len(in.attrs[r].Value.grp) = 3
    /\ Len(out[1].attrs) = 1
    /\ Len(out[1].attrs[1].Value.grp) = 1

\* trees[k] was returned by a call that was given nothing to add
DerivedFromNothing(k) ==
    \/ derivation[k].op = "WithAttrs" /\ Len(derivation[k].attrs) = 0
    \/ derivation[k].op = "WithGroup" /\ derivation[k].name = <<>>

\* C7: WithAttrs with nil or empty attrs and WithGroup("") return a tree
\* equal to the receiver (name, path, attributes, ancestor chain), which
\* resolves to the same output
C7_NothingAddedSameTree ==
    \A k \in 2..Len(trees) :
        DerivedFromNothing(k)
            => /\ trees[k] = trees[derivation[k].recv]
               /\ Output(k) = Output(derivation[k].recv)

\* a tree inside a group and holding attributes was the receiver of both an
\* empty WithAttrs and a WithGroup("")
C7_Witness ==
    \E k, l \in 2..Len(trees) :
        /\ derivation[k].op = "WithAttrs" /\ DerivedFromNothing(k)
        /\ derivation[l].op = "WithGroup" /\ DerivedFromNothing(l)
        /\ derivation[k].recv = derivation[l].recv
        /\ trees[derivation[k].recv].ancestor # <<>>
        /\ trees[derivation[k].recv].attrs.len > 0

\* C8: a call of WithAttrs or WithGroup on tree T leaves T as it was:
\* T.History().DeduplicatedAttrs() returns after the call what it returned
\* before it
C8_ReceiverUnchanged ==
    [][\A i \in 1..Len(trees) :
          derivation'[Len(derivation')].recv = i
              => /\ trees'[i] = trees[i]
                 /\ DeduplicatedAttrs(heap', trees[i]) = DeduplicatedAttrs(heap, trees[i])]_vars

\* one tree was the receiver of a WithAttrs that appended in place, into the
\* backing array the tree shows, and of a WithGroup with a name
C8_Witness ==
    \E k, l \in 2..Len(trees) :
        /\ derivation[k].op = "WithAttrs" /\ ~DerivedFromNothing(k)
        /\ trees[k].attrs.arr = trees[derivation[k].recv].attrs.arr
        /\ derivation[l].op = "WithGroup" /\ ~DerivedFromNothing(l)
        /\ derivation[k].recv = derivation[l].recv

\* trees[k] shows the attributes of its receiver followed by those it was given
HoldsOwnAttrs(k) ==
    Elems(heap, trees[k].attrs)
        = Elems(heap, trees[derivation[k].recv].attrs) \o derivation[k].attrs

\* C9: after X = T.WithAttrs(a) and then Y = T.WithAttrs(b), a and b not
\* empty, X holds T's attributes followed by a and Y holds T's followed by b
C9_SiblingsIndependent ==
    \A x, y \in 2..Len(trees) :
        (/\ x < y
         /\ derivation[x].op = "WithAttrs" /\ ~DerivedFromNothing(x)
         /\ derivation[y].op = "WithAttrs" /\ ~DerivedFromNothing(y)
         /\ derivation[x].recv = derivation[y].recv)
        => HoldsOwnAttrs(x) /\ HoldsOwnAttrs(y)

\* the handler's persistent attributes followed by the record attributes
\* of call c, resolved
OwnAttrs(c) ==
    LET groups == Load(heap, History(handler))
        n == Len(groups)
    IN  resolve(NoKeys, [groups EXCEPT ![n].attrs = @ \o calls[c].recordAttrs]).attrs

\* C10: concurrent Handle calls on one handler each produce the handler's
\* persistent attributes followed by the call's own record attributes, in
\* every interleaving
C10_ConcurrentHandleOwnAttrs ==
    \A c \in 1..NCalls :
        /\ calls[c].pc \in {"lock", "load", "store", "unlock", "done"} => calls[c].attrs = OwnAttrs(c)
        /\ calls[c].pc \in {"unlock", "done"}
              => \E i \in 1..Len(records) :
                    records[i].Message = Digits[c + 1] /\ records[i].Attrs = OwnAttrs(c)

\* C13: PushFront(attrs) makes the root group's list attrs followed by the
\* previous root attributes and leaves the other groups alone, so that the
\* resolved output begins with the pushed attributes, resolved; with no
\* attrs, or on a history without groups, the history stays as it was
C13_PushFrontFirst ==
    \A k \in 1..Len(pushes) :
        LET p == pushes[k] IN
        IF Len(p.attrs) = 0 \/ Len(p.before) = 0
        THEN p.after = p.before /\ p.keysAfter = p.keysBefore
        ELSE /\ p.after = [p.before EXCEPT ![1].attrs = p.attrs \o @]
             /\ p.keysAfter = p.keysBefore
             /\ IsPrefix(resolveAttrs(NoKeys, <<>>, p.attrs).attrs, resolve(NoKeys, p.after).attrs)

\* attributes were pushed onto a history of two or more groups whose root
\* holds an attribute with a pushed key, after a push of no attributes
C13_Witness ==
    \E k, l \in 1..Len(pushes) :
        /\ l < k
        /\ Len(pushes[l].attrs) = 0
        /\ Len(pushes[k].attrs) > 0
        /\ Len(pushes[k].before) >= 2
        /\ \E q \in 1..Len(pushes[k].before[1].attrs) :
              pushes[k].before[1].attrs[q].Key = pushes[k].attrs[1].Key
        /\ Len(pushes[k].before[Len(pushes[k].before)].attrs) > 0

\* C14: two DeduplicatedAttrs calls on one history with no PushFront between
\* them return the same attributes
C14_SameResultTwice ==
    \A i, j \in 1..Len(results) :
        results[i].pushes = results[j].pushes => results[i].attrs = results[j].attrs


\* the attributes context c carries under key, as memory shows them
CtxList(c, key) == Carried(heap, c, key)

\* the other of the two keys
OtherKey(key) == IF key = ctxKeyWithAttrs THEN ctxKeyWithRootAttrs ELSE ctxKeyWithAttrs

\* C16: a context returned by WithAttrs or WithRootAttrs carries, under the
\* key of the call, the parent's attributes followed by the new ones, and
\* under the other key what the parent carries; this stays so whatever is
\* derived later from the parent or from the context itself
C16_ContextLists ==
    \A k \in 2..Len(ctxs) :
        LET d == ctxDerivation[k]
            parent == IF d.recv = 0 THEN Background ELSE ctxs[d.recv]
        IN  /\ CtxList(ctxs[k], d.key) = CtxList(parent, d.key) \o d.attrs
            /\ CtxList(ctxs[k], OtherKey(d.key)) = CtxList(parent, OtherKey(d.key))

\* two contexts were derived, each with one attribute of the same kind and
\* not the same one, from one parent whose slice of that kind has unused
\* capacity, and a third context from nil
C16_Witness ==
    \E x, y, z \in 2..Len(ctxs) :
        /\ x < y
        /\ ctxDerivation[x].recv = ctxDerivation[y].recv
        /\ ctxDerivation[x].recv > 1
        /\ ctxDerivation[x].key = ctxDerivation[y].key
        /\ Len(ctxDerivation[x].attrs) = 1 /\ Len(ctxDerivation[y].attrs) = 1
        /\ ctxDerivation[x].attrs # ctxDerivation[y].attrs
        /\ LET s == Extract(ctxs[ctxDerivation[x].recv], ctxDerivation[x].key) IN s.len < s.cap
        /\ ctxDerivation[z].recv = 0


\* the attributes extractor returns in the call p: those the context carries
\* under its key, or those of its literal
ExtractedFrom(p, extractor) ==
    IF extractor.fn = "ctx"
    THEN (IF extractor.key = ctxKeyWithAttrs THEN p.ctxAttrs ELSE p.ctxRootAttrs)
    ELSE extractor.attrs

\* the attributes of the append extractors of the call p, in the order of
\* the extractors
RECURSIVE ReturnedBy(_, _)
ReturnedBy(p, extractors) ==
    IF Len(extractors) = 0 THEN <<>>
    ELSE ExtractedFrom(p, Head(extractors)) \o ReturnedBy(p, Tail(extractors))

\* the attributes of the root extractors of the call p, those of a later
\* extractor before those of an earlier one
RECURSIVE ReturnedFront(_, _)
ReturnedFront(p, extractors) ==
    IF Len(extractors) = 0 THEN <<>>
    ELSE ReturnedFront(p, Tail(extractors)) \o ExtractedFrom(p, Head(extractors))

Extracted(p) == ReturnedBy(p, p.extractors)

RootExtracted(p) == ReturnedFront(p, p.rootExtractors)

\* C11: with no group entered, the wrapped handler is passed the attributes
\* of the root extractors, then the handler's persistent attributes, then
\* the record's own attributes, then those of the append extractors,
\* resolved as one list
C11_RootOrder ==
    \A k \in 1..Len(passed) :
        LET p == passed[k] IN
        Len(p.groups) = 1
            => p.attrs = resolveAttrs(NoKeys, <<>>,
                             RootExtracted(p) \o p.groups[1].attrs \o p.recordAttrs \o Extracted(p)).attrs

\* a call on a handler without groups whose four sources all hold
\* attributes, some with equal keys; the extractors of both lists are that
\* of the context and one of the caller, and each returned attributes
C11_Witness ==
    \E k \in 1..Len(passed) :
        LET p == passed[k] IN
        /\ Len(p.groups) = 1
        /\ Len(p.ctxRootAttrs) > 0 /\ Len(RootExtracted(p)) > Len(p.ctxRootAttrs)
        /\ Len(p.ctxAttrs) > 0 /\ Len(Extracted(p)) > Len(p.ctxAttrs)
        /\ Len(p.groups[1].attrs) > 0
        /\ Len(p.recordAttrs) > 0
        /\ RootExtracted(p)[1].Key = p.groups[1].attrs[1].Key
        /\ Extracted(p)[1].Key = p.recordAttrs[1].Key
        /\ Len(p.attrs) = Len(RootExtracted(p)) + Len(p.groups[1].attrs) + Len(p.recordAttrs) + Len(Extracted(p))


\* C12: with groups entered, the output holds at the root the attributes of
\* the root extractors, then the root's persistent attributes, then nothing
\* but groups; the innermost group holds its persistent attributes, then the
\* record's own attributes, then those of the append extractors
C12_GroupedOrder ==
    \A k \in 1..Len(passed) :
        LET p == passed[k]
            n == Len(p.groups)
            front == resolveAttrs(NoKeys, <<>>, RootExtracted(p) \o p.groups[1].attrs).attrs
        IN  n >= 2
            => /\ IsPrefix(front, p.attrs)
               /\ \A q \in (Len(front) + 1)..Len(p.attrs) : IsGroup(p.attrs[q])
               /\ Shape(OutLevel(p.attrs, n)) = Kept(p.groups[n].attrs \o p.recordAttrs \o Extracted(p))

\* a call on a handler inside two groups, with persistent attributes at the
\* root and in the innermost group, a record with attributes, a context
\* with attributes of both kinds and an extractor of the caller in both
\* lists that returned attributes
C12_Witness ==
    \E k \in 1..Len(passed) :
        LET p == passed[k] IN
        /\ Len(p.groups) = 3
        /\ Len(p.ctxRootAttrs) > 0 /\ Len(RootExtracted(p)) > Len(p.ctxRootAttrs)
        /\ Len(p.ctxAttrs) > 0 /\ Len(Extracted(p)) > Len(p.ctxAttrs)
        /\ Len(p.groups[1].attrs) > 0
        /\ Len(p.groups[3].attrs) > 0
        /\ Len(p.recordAttrs) > 0
        /\ Len(OutLevel(p.attrs, 3)) = Len(p.groups[3].attrs) + Len(p.recordAttrs) + Len(Extracted(p))

\* C15: Handle returns nil exactly when the wrapped handler returned nil;
\* otherwise it returns an error whose message is "passing record to inner
\* handler: " followed by the message of the wrapped handler's error, and
\* which unwraps to that error
C15_ErrorWrapped ==
    \A k \in 1..Len(passed) :
        LET p == passed[k] IN
        /\ p.err = NilError <=> p.wrapped = NilError
        /\ p.wrapped # NilError
              => /\ p.err[1].msg = "passing record to inner handler: " \o p.wrapped[1].msg
                 /\ p.err[1].unwrap = p.wrapped

\* a call whose wrapped handler returned an error, after one whose wrapped
\* handler returned nil
C15_Witness ==
    \E k, l \in 1..Len(passed) :
        /\ k < l
        /\ passed[k].wrapped = NilError /\ passed[k].err = NilError
        /\ passed[l].wrapped # NilError
        /\ passed[l].err[1].msg = "passing record to inner handler: some internal error"


\* the calls whose append has written lr.records
Stored == {c \in 1..NCalls : calls[c].pc \in {"unlock", "done"}}

\* C17: the sink holds exactly one record for every call that has appended,
\* complete (level, message and the attributes the call resolved), and no
\* other record; N records after N calls
C17_OneRecordPerCall ==
    /\ Len(records) = Cardinality(Stored)
    /\ \A c \in Stored :
          /\ Cardinality({i \in 1..Len(records) : records[i].Message = Digits[c + 1]}) = 1
          /\ \E i \in 1..Len(records) :
                records[i] = [Level |-> "INFO", Message |-> Digits[c + 1], Attrs |-> calls[c].attrs]

\* every call has returned, the last call's record is the first in the sink
C17_Witness ==
    /\ \A c \in 1..NCalls : calls[c].pc = "done"
    /\ Len(records) = NCalls
    /\ records[1].Message = Digits[NCalls + 1]

\* C18: no goroutine is inside a method that reads lr.records while an
\* append holds the mutex
C18_ReadsGuarded ==
    \A r \in 1..NReaders : readers[r].pc = "reading" => mu = 0


\* the value found in attrs by following keys through the groups: <<>> when
\* there is none, when keys end at a group or go on through a scalar
RECURSIVE Find(_, _)
Find(attrs, keys) ==
    LET hits == {i \in 1..Len(attrs) : attrs[i].Key = keys[1]} IN
    IF hits = {} THEN <<>>
    ELSE LET value == attrs[CHOOSE i \in hits : \A j \in hits : j <= i].Value
         IN  IF Len(keys) = 1
             THEN (IF value.kind = "Group" THEN <<>> ELSE <<value>>)
             ELSE (IF value.kind = "Group" THEN Find(value.grp, Tail(keys)) ELSE <<>>)

\* the text a value is compared by: the text of the error for a value that
\* implements error, the string for a string, none for any other value
TextOf(value) ==
    IF value.err # <<>> THEN value.err
    ELSE IF value.kind = "String" THEN <<value.val>>
    ELSE <<>>

\* the value is the expected one; an error counts as its text
SameValue(value, expected) ==
    \/ value = expected
    \/ /\ value.err # <<>> \/ expected.err # <<>>
       /\ TextOf(value) # <<>>
       /\ TextOf(value) = TextOf(expected)

\* rec has the level and the message of query and, at every path of the
\* query, the expected value
Matches(rec, query) ==
    /\ rec.Level = query.Level
    /\ rec.Message = query.Message
    /\ \A path \in DOMAIN query.Attrs :
          LET found == Find(rec.Attrs, Split(path, "."))
          IN  found # <<>> /\ SameValue(found[1], query.Attrs[path])

\* C19: Contains(q) returns true if and only if a captured record has the
\* level and the message of q and the expected value at every path of q
C19_ContainsIff ==
    (out # <<>> /\ ~in.exact)
        => (out[1] = "true" <=> \E i \in 1..Len(records) : Matches(records[i], in.query))

\* the key sequences that lead to the scalar attributes of a list
RECURSIVE LeafPaths(_)
LeafPaths(attrs) ==
    UNION { IF attrs[i].Value.kind = "Group"
            THEN {<<attrs[i].Key>> \o rest : rest \in LeafPaths(attrs[i].Value.grp)}
            ELSE {<<attrs[i].Key>>}
            : i \in 1..Len(attrs) }

\* C20: ContainsExact(q) returns true if and only if a captured record has
\* the level and the message of q, the expected value at every path of q
\* and no attribute at a path q does not name
C20_ContainsExactIff ==
    (out # <<>> /\ in.exact)
        => (out[1] = "true" <=>
               \E i \in 1..Len(records) :
                   /\ Matches(records[i], in.query)
                   /\ LeafPaths(records[i].Attrs) = {Split(path, ".") : path \in DOMAIN in.query.Attrs})

\* the expected values of the query of the call that are of group kind
GroupExpected == {path \in DOMAIN in.query.Attrs : in.query.Attrs[path].kind = "Group"}

\* C21: Contains and ContainsExact panic, and return nothing, whenever an
\* expected value of the query is of group kind, whatever the records are;
\* without such a value they do not panic with the group-value message
C21_GroupValuePanics ==
    out # <<>>
        => /\ GroupExpected # {} => out[1] \notin {"true", "false"}
           /\ GroupExpected = {} => out[1] # GroupValuePanic

\* a call on no records whose query holds a group value next to a scalar
\* one ended in the group-value panic
C21_Witness ==
    /\ out = <<GroupValuePanic>>
    /\ records = <<>>
    /\ GroupExpected # {}
    /\ GroupExpected # DOMAIN in.query.Attrs

\* C22: a WithAttrs call with attributes on tree T returns a tree with T's
\* name, path and ancestor chain whose attribute list is T's attributes
\* followed by the new ones; the groups of the chain hold what they held
C22_WithAttrsAppends ==
    [][\A i \in 1..Len(trees) :
          LET d == derivation'[Len(derivation')]
              new == trees'[Len(trees')]
              before == Load(heap, History(trees[i]))
          IN  (d.op = "WithAttrs" /\ d.recv = i /\ Len(d.attrs) > 0)
                  => /\ new.name = trees[i].name
                     /\ new.path = trees[i].path
                     /\ new.ancestor = trees[i].ancestor
                     /\ Elems(heap', new.attrs) = Elems(heap, trees[i].attrs) \o d.attrs
                     /\ Load(heap', History(new))
                            = [before EXCEPT ![Len(before)].attrs = @ \o d.attrs]]_vars

\* attributes were added to a tree inside a group that held attributes
\* already, with the root holding attributes too
C22_Witness ==
    \E k \in 2..Len(trees) :
        /\ derivation[k].op = "WithAttrs" /\ ~DerivedFromNothing(k)
        /\ trees[derivation[k].recv].ancestor # <<>>
        /\ trees[derivation[k].recv].attrs.len > 0
        /\ trees[derivation[k].recv].ancestor[1].attrs.len > 0
        /\ trees[k].attrs.len = trees[derivation[k].recv].attrs.len + Len(derivation[k].attrs)

\* the calls that led from NewAttrGroupTree() to trees[k], in order
RECURSIVE CallsTo(_)
CallsTo(k) == IF k = 1 THEN <<>> ELSE Append(CallsTo(derivation[k].recv), derivation[k])

\* the trees on the ancestor chain of agt, agt first; the chain ends at the
\* tree without ancestor
RECURSIVE AncestorChain(_)
AncestorChain(agt) ==
    <<agt>> \o (IF agt.ancestor = <<>> THEN <<>> ELSE AncestorChain(agt.ancestor[1]))

\* the groups the calls that led to trees[k] made, oldest first, from the log
\* of the calls: the root group, and one group for every WithGroup call with
\* a name, with the path made of the names so far; given counts the
\* attributes the WithAttrs calls gave the group while it was the newest
RECURSIVE Entered(_)
Entered(k) ==
    IF k = 1 THEN <<[name |-> <<>>, path |-> <<>>, given |-> 0]>>
    ELSE LET d == derivation[k]
             before == Entered(d.recv)
             last == before[Len(before)]
         IN  IF d.op = "WithAttrs"
             THEN [before EXCEPT ![Len(before)].given = @ + Len(d.attrs)]
             ELSE IF d.name = <<>> THEN before
             ELSE Append(before,
                         [name |-> d.name,
                          path |-> IF Len(before) = 1 THEN d.name
                                   ELSE last.path \o delimiter \o d.name,
                          given |-> 0])

\* C23: the ancestor chain of a tree is finite, ends at the root group and
\* meets no tree twice; History() lists the root group and then one group
\* for every WithGroup call with a name, oldest first: the j-th group after
\* the root has the name of the j-th such call, the path made of the names
\* of the first j calls, and as many attributes as the calls gave it; in
\* the resolved output a group that was given attributes is the last
\* attribute of the group entered before it, under its name (with or
\* without suffix)
C23_HistoryOldestFirst ==
    \A k \in 1..Len(trees) :
        LET groups == GroupsOf(k)
            entered == Entered(k)
            chain == AncestorChain(trees[k])
            output == Output(k)
        IN  /\ Len(chain) = Len(entered)
            /\ chain[Len(chain)].ancestor = <<>> /\ chain[Len(chain)].name = <<>>
            /\ \A x, y \in 1..Len(chain) : x # y => chain[x].path # chain[y].path
            /\ Len(groups) = Len(entered)
            /\ \A j \in 1..Len(entered) :
                  /\ groups[j].name = entered[j].name
                  /\ groups[j].path = entered[j].path
                  /\ Len(groups[j].attrs) = entered[j].given
            /\ \A j \in 2..Len(entered) :
                  entered[j].given > 0
                      => LET level == OutLevel(output, j - 1) IN
                         /\ Len(level) > 0
                         /\ IsGroup(level[Len(level)])
                         /\ \E n \in 0..99 :
                               level[Len(level)].Key = Suffixed(entered[j].name, n)
                         /\ Len(OutLevel(output, j)) >= entered[j].given

\* a tree two groups deep, the groups entered under different names, with
\* attributes in the innermost group only, reached through a WithGroup("")
\* call
C23_Witness ==
    \E k \in 1..Len(trees) :
        /\ Len(GroupsOf(k)) = 3
        /\ Entered(k)[2].name # Entered(k)[3].name
        /\ Len(GroupsOf(k)[2].attrs) = 0
        /\ Len(GroupsOf(k)[3].attrs) > 0
        /\ Len(OutLevel(Output(k), 3)) > 0
        /\ \E c \in 1..Len(CallsTo(k)) : CallsTo(k)[c].op = "WithGroup" /\ CallsTo(k)[c].name = <<>>

\* the attributes of a list, of the children of its groups, and so on
RECURSIVE AttrsIn(_)
AttrsIn(list) ==
    UNION { {list[p]} \cup (IF IsGroup(list[p]) THEN AttrsIn(list[p].Value.grp) ELSE {})
            : p \in 1..Len(list) }

\* the attributes given to the PushFront calls so far, and the values of
\* those that are not groups
Pushed == UNION { AttrsIn(pushes[p].attrs) : p \in 1..Len(pushes) }

PushedValues == {a.Value : a \in {b \in Pushed : ~IsGroup(b)}}

\* C24: PushFront on a history leaves the tree of the history as it was
\* when the history was created, and neither that tree, nor a tree derived
\* from it, nor a history created from one of them now, nor what that
\* history resolves to, holds a pushed attribute
C24_PushFrontFrame ==
    /\ GroupsOf(1) = in.groups
    /\ \A k \in 1..Len(trees) :
          /\ \A j \in 1..Len(GroupsOf(k)) : AttrsIn(GroupsOf(k)[j].attrs) \cap Pushed = {}
          /\ \A a \in AttrsIn(Output(k)) : a \notin Pushed /\ a.Value \notin PushedValues

\* attributes were pushed onto a history whose root held attributes, the
\* history shows them first, and a tree was derived from the tree of the
\* history with WithAttrs after the push
C24_Witness ==
    /\ Len(pushes) > 0
    /\ Len(pushes[1].attrs) > 0
    /\ Len(pushes[1].before[1].attrs) > 0
    /\ IsPrefix(pushes[1].attrs, Load(heap, agh[1].groups)[1].attrs)
    /\ \E k \in 2..Len(trees) :
          /\ derivation[k].op = "WithAttrs" /\ derivation[k].recv = 1
          /\ trees[k].attrs.arr > agh[1].groups[1].attrs.arr

\* the handler NewHandler returned from which handlers[k] was derived
RECURSIVE Origin(_)
Origin(k) == IF derivation[k].op = "New" THEN k ELSE Origin(derivation[k].recv)

\* C25: a derived handler points to the LoggedRecords of the handler it
\* comes from, and Records() of an original handler holds the records of
\* the Handle calls made on the handlers derived from it and on itself, one
\* a call, in the order the calls completed their append
C25_SharedRecords ==
    /\ \A k \in 1..Len(handlers) : handlers[k].loggedRecords = handlers[Origin(k)].loggedRecords
    /\ \A o \in {k \in 1..Len(handlers) : derivation[k].op = "New"} :
          LET done == SelectSeq(appended, LAMBDA c : Origin(calls[c].handler) = o)
          IN  Records(sinks, handlers[o]) = [j \in 1..Len(done) |-> calls[done[j]].record]

\* two Handle calls on two handlers derived from the first original, one
\* inside a group, completed their append in the order opposite to the
\* order they were made in
C25_Witness ==
    /\ appended = <<2, 1>>
    /\ calls[1].handler # calls[2].handler
    /\ Origin(calls[1].handler) = 1 /\ Origin(calls[2].handler) = 1
    /\ calls[1].handler > 2 /\ calls[2].handler > 2
    /\ handlers[calls[1].handler].persistentAttrs.ancestor # <<>>
    /\ Len(Records(sinks, handlers[1])) = 2
    /\ Records(sinks, handlers[2]) = <<>>

\* C26: flattening a query whose expected values are all of non-group kind
\* never ends in the "unexpected attr value type" panic, whatever its paths
\* and whatever the order the map is visited in
C26_NoAttrValueTypePanic ==
    (out # <<>> /\ GroupExpected = {}) => out[1] # AttrValueTypePanic

\* the keys of a list are pairwise distinct, and so are those of the
\* children of every group in it, at every depth
RECURSIVE DistinctKeys(_)
DistinctKeys(list) ==
    /\ \A p, q \in 1..Len(list) : p # q => list[p].Key # list[q].Key
    /\ \A p \in 1..Len(list) : IsGroup(list[p]) => DistinctKeys(list[p].Value.grp)

\* C27: in what DeduplicatedAttrs returns on a fresh history the keys of
\* every level, the root and the inside of every group, are pairwise distinct
C27_KeysDistinct ==
    \A t \in 1..Len(trees) : DistinctKeys(Output(t))

\* key ends in #NN; none of the keys given to resolveAttrs in SpecResolve does
IsSuffixed(key) == Len(key) > 3 /\ key[Len(key) - 2] = "#"

\* every suffixed key of a list comes after the key without the suffix, in
\* the list and in the children of every group in it
RECURSIVE SuffixAfterPlain(_)
SuffixAfterPlain(list) ==
    /\ \A p \in 1..Len(list) :
          IsSuffixed(list[p].Key)
              => \E q \in 1..(p - 1) : list[q].Key = SubSeq(list[p].Key, 1, Len(list[p].Key) - 3)
    /\ \A p \in 1..Len(list) : IsGroup(list[p]) => SuffixAfterPlain(list[p].Value.grp)

\* C28: in the output on a fresh duplicateAttrKeys map a key k#NN appears
\* at a level only after an attribute with key k at that level: dropped
\* attributes and unnamed groups take no suffix index
C28_SuffixOnlyAfterPlain ==
    out # <<>> => SuffixAfterPlain(out[1].attrs)

\* C29: the group entered with WithGroup(name) is emitted, as the last
\* attribute of its parent's level, under name itself unless an attribute
\* with key name was emitted before it at that level; the keys of its
\* children play no part
C29_EnteredGroupKey ==
    \A t \in 1..Len(trees) :
        LET groups == GroupsOf(t) IN
        \A j \in 2..Len(groups) :
            LET level == OutLevel(Output(t), j - 1) IN
            (/\ \E i \in j..Len(groups) : Len(groups[i].attrs) > 0
             /\ Len(level) > 0
             /\ IsGroup(level[Len(level)])
             /\ level[Len(level)].Key # groups[j].name)
            => \E q \in 1..(Len(level) - 1) : level[q].Key = groups[j].name

\* what call c is to emit: the root attributes of the context, then the
\* persistent attributes of its handler with the attributes of its record
\* in the innermost group, resolved
RaceOwnAttrs(c) ==
    LET groups == Load(heap, History(calls[c].tree))
    IN  AddAttrs(resolve(NoKeys, [groups EXCEPT ![1].attrs = Carried(heap, ctxs[2], ctxKeyWithRootAttrs) \o @]).attrs)

\* C30: concurrent Handle calls with one context and handlers of their own
\* each emit the root attributes of the context followed by the attributes
\* of their own handler, and the list PushFront builds has no backing array
\* in common with the slice the context holds
C30_ConcurrentRootAttrs ==
    \A c \in 1..NRaceCalls :
        /\ calls[c].pc = "done" => calls[c].attrs = RaceOwnAttrs(c)
        /\ calls[c].pc \in {"resolve", "done"}
              => calls[c].hist.groups[1].attrs.arr # Extract(ctxs[2], ctxKeyWithRootAttrs).arr


====
